---- MODULE Spec2Model ----
(***************************************************************************)
(* Workflow graph validator, node variants, execution engine and workflow  *)
(* service of the weather-alert API (api/internal/workflow,                *)
(* api/internal/execution, api/pkg/node/...).                              *)
(*                                                                         *)
(* Conventions                                                             *)
(*  - Go's nil error is the string "nil"; a nil pointer to a struct is a   *)
(*    record of that struct's shape (NilNode, NilRecord, NoWorkflow).      *)
(*  - float64 values are fixed-point integers in tenths: 25.5 is 255.      *)
(*  - A value of dynamic type `any` is a record [t |-> tag, v |-> value];  *)
(*    a Go type assertion x.(float64) succeeds iff x.t = "num".            *)
(*  - Go slices are sequences; Go index i is position i+1.                 *)
(***************************************************************************)
EXTENDS Integers, Sequences, FiniteSets, TLC

VARIABLES
    vNodes, vEdges, vErr,   \* validateWorkflowStructure: arguments and result ("none" before the call)
    cIn, cOut,              \* condition.Node.Execute: receiver and inputs, result (Pending before the call)
    ePc,                    \* Engine.Execute: "idle", "running" (in the loop), "returned"
    eCall,                  \* its arguments, and what the weather endpoint does during the call
    eNodes, eEdges,         \* nodes and edges of initializeWorkflow (node instances, routing table)
    eCurrent,               \* currentNodeID
    eExecution,             \* execution: Status and Steps
    ePrior,                 \* priorOutputs
    eRet,                   \* the returned (record, error); NotReturned before
    eEffects,               \* the collaborators called during the call ("fetch", "mail")
    sRepo,                  \* the repository: workflow id -> stored workflow or Absent
    sEngine,                \* WorkflowServiceImpl.engine is not nil
    sCall,                  \* the last service call: method, id, workflow argument, path taken
    sEngineArg,             \* the workflow that call handed to Engine.Execute, or NoWorkflow
    sWrite,                 \* the workflow that call handed to repo.Create / repo.Update, or NoWorkflow
    sErr,                   \* the error that call returned ("none" before any call)
    rFactories,             \* Registry.factories: node type -> factory
    rLog,                   \* the Register calls made on the registry, in order
    rOut,                   \* the last Registry.Create: its model's type and result; NotCreated before
    nCall,                  \* Node.Execute: the receiver, the inputs and what the endpoint does
    nOut,                   \* its result (outputs, err, node after, effects); NotExecuted before
    xCall,                  \* concurrent Engine.Execute calls on one Engine: the arguments of each
    xLocal,                 \* each call's locals: position, nodes (id -> pointer), edges,
                            \* currentNodeID, execution, priorOutputs, returned values
    xHeap,                  \* the node instances allocated by the calls, by pointer
    xTurn,                  \* the call that took the latest step (0 before any)
    dRow,                   \* the committed state of one workflow in the tables workflows,
                            \* workflow_nodes, workflow_edges: name, version, nodes, edges
    dLock,                  \* the transaction holding the row lock of that workflows row, 0 if none
    dTx,                    \* the Update transactions: position, argument, version read, pending row
    dCommits,               \* the number of Update transactions committed so far
    qCall,                  \* workflowsEqual: its arguments wf1 and wf2
    qPc,                    \* the caller's position: "idle", "recvNodes", "recvEdges", "returned"
    qNodes,                 \* the goroutine comparing nodes: position, loop index, values sent
    qEdges,                 \* the goroutine comparing edges: position, loop index, values sent
    qNodesChan,             \* the buffer of nodesChan
    qEdgesChan,             \* the buffer of edgesChan
    qNodesEqual,            \* the caller's local nodesEqual once received
    qRet                    \* the value returned, once returned

engineVars == <<ePc, eCall, eNodes, eEdges, eCurrent, eExecution, ePrior, eRet, eEffects>>

serviceVars == <<sRepo, sEngine, sCall, sEngineArg, sWrite, sErr>>
registryVars == <<rFactories, rLog, rOut>>
nodeVars == <<nCall, nOut>>
concurrentVars == <<xCall, xLocal, xHeap, xTurn>>
repositoryVars == <<dRow, dLock, dTx, dCommits>>
equalVars == <<qCall, qPc, qNodes, qEdges, qNodesChan, qEdgesChan, qNodesEqual, qRet>>

vars == <<vNodes, vEdges, vErr, cIn, cOut, ePc, eCall, eNodes, eEdges, eCurrent,
          eExecution, ePrior, eRet, eEffects, sRepo, sEngine, sCall, sEngineArg, sWrite, sErr,
          rFactories, rLog, rOut, nCall, nOut, xCall, xLocal, xHeap, xTurn,
          dRow, dLock, dTx, dCommits,
          qCall, qPc, qNodes, qEdges, qNodesChan, qEdgesChan, qNodesEqual, qRet>>

validatorVars == <<vNodes, vEdges, vErr>>
conditionVars == <<cIn, cOut>>

----------------------------------------------------------------------------
(* Bounds *)

MaxNodes == 3
MaxEdges == 2
MaxSteps == 8
MaxRegisters == 3

----------------------------------------------------------------------------
(* models: node types, statuses, operators (pkg/models) *)

NodeTypeStart == "start"
NodeTypeForm == "form"
NodeTypeIntegration == "integration"
NodeTypeCondition == "condition"
NodeTypeEmail == "email"
NodeTypeEnd == "end"

StatusCompleted == "completed"
StatusFailed == "failed"
StatusRunning == "running"

OperatorGreaterThan == "greater_than"
OperatorLessThan == "less_than"
OperatorEquals == "equals"
OperatorGreaterThanOrEqual == "greater_than_or_equal"
OperatorLessThanOrEqual == "less_than_or_equal"

ValidOperators ==
    {OperatorGreaterThan, OperatorLessThan, OperatorEquals,
     OperatorGreaterThanOrEqual, OperatorLessThanOrEqual}

NodeIDForm == "form"
NodeIDWeatherAPI == "weather-api"
NodeIDCondition == "condition"

\* models.Node restricted to the fields the core reads.  Texts with
\* placeholders (descriptions, templates) are sequences of tokens, a
\* placeholder such as {{city}} being one token.
\*   meta.apiEndpoint       : BOOLEAN  (metadata["apiEndpoint"] is a string)
\*   meta.options           : set of city names of metadata["options"]
\*   meta.hasInputVariables : BOOLEAN  (metadata has the key "inputVariables")
\*   meta.inputVariables    : sequence of variable names
\*   meta.subject, meta.body : metadata["emailTemplate"], token sequences
NoMeta ==
    [apiEndpoint |-> FALSE, options |-> {}, hasInputVariables |-> FALSE,
     inputVariables |-> <<>>, subject |-> <<>>, body |-> <<>>]

\* Data.Label is read and copied but never interpreted; every definition
\* gets the label text made of its id.
MkNodeFull(id, type, description, meta) ==
    [id |-> id, type |-> type, label |-> <<"Label ", id>>, description |-> description,
     meta |-> meta]

MkNode(id, type) == MkNodeFull(id, type, <<>>, NoMeta)

\* models.Edge restricted to the fields the core reads.
MkEdge(id, source, target, handle) ==
    [id |-> id, source |-> source, target |-> target, sourceHandle |-> handle]

\* All sequences over S of length 0..n.
SeqsUpTo(S, n) == UNION {[1..k -> S] : k \in 0..n}

----------------------------------------------------------------------------
(* validateWorkflowStructure (internal/workflow/workflow.go:273-350) *)

\* The node loop, lines 286-310: returns the first per-node error, or "nil".
RECURSIVE NodeLoop(_, _, _)
NodeLoop(nodes, i, nodeIDs) ==
    IF i > Len(nodes) THEN "nil"
    ELSE IF nodes[i].id = "" THEN "ErrEmptyNodeID"
    ELSE IF nodes[i].id \in nodeIDs THEN "ErrDuplicateNodeID"
    ELSE IF nodes[i].type = "" THEN "ErrInvalidNodeType"
    ELSE NodeLoop(nodes, i + 1, nodeIDs \cup {nodes[i].id})

\* nodeIDs after a node loop that ran to its end, line 304.
NodeIDSet(nodes) == {nodes[i].id : i \in 1..Len(nodes)}

\* hasStart / hasEnd after the loop, lines 288-295.
HasType(nodes, type) == \E i \in 1..Len(nodes) : nodes[i].type = type

\* startNodeIndex / endNodeIndex after the loop (Go index, -1 when absent):
\* the assignment at lines 290 and 294 is repeated for every matching node,
\* so the LAST matching index survives.
FirstIndexOfType(nodes, type) ==
    IF ~HasType(nodes, type) THEN -1
    ELSE (CHOOSE i \in 1..Len(nodes) :
            /\ nodes[i].type = type
            /\ \A j \in 1..Len(nodes) : nodes[j].type = type => j >= i) - 1

LastIndexOfType(nodes, type) ==
    IF ~HasType(nodes, type) THEN -1
    ELSE (CHOOSE i \in 1..Len(nodes) :
            /\ nodes[i].type = type
            /\ \A j \in 1..Len(nodes) : nodes[j].type = type => j <= i) - 1

\* Mutant: `if !hasStart { startNodeIndex = i }`, the first start node wins.
StartNodeIndexFirst(nodes) == FirstIndexOfType(nodes, NodeTypeStart)

StartNodeIndex(nodes) == LastIndexOfType(nodes, NodeTypeStart)

EndNodeIndex(nodes) == LastIndexOfType(nodes, NodeTypeEnd)

\* Lines 313-324.
PositionChecks(nodes) ==
    IF ~HasType(nodes, NodeTypeStart) THEN "ErrMissingStartNode"
    ELSE IF ~HasType(nodes, NodeTypeEnd) THEN "ErrMissingEndNode"
    ELSE IF StartNodeIndex(nodes) # 0 THEN "ErrStartNodePosition"
    ELSE IF EndNodeIndex(nodes) # Len(nodes) - 1 THEN "ErrEndNodePosition"
    ELSE "nil"

\* The edge loop, lines 327-347.
\* Mutant: the target lookup of lines 344-346 is dropped.
RECURSIVE EdgeLoopNoTarget(_, _, _, _)
EdgeLoopNoTarget(edges, i, edgeIDs, nodeIDs) ==
    IF i > Len(edges) THEN "nil"
    ELSE IF edges[i].id = "" THEN "ErrEmptyEdgeID"
    ELSE IF edges[i].id \in edgeIDs THEN "ErrDuplicateEdgeID"
    ELSE IF edges[i].source = "" \/ edges[i].target = "" THEN "ErrInvalidEdgeConnection"
    ELSE IF edges[i].source \notin nodeIDs THEN "ErrEdgeToUnknownNode"
    ELSE EdgeLoopNoTarget(edges, i + 1, edgeIDs \cup {edges[i].id}, nodeIDs)

RECURSIVE EdgeLoop(_, _, _, _)
EdgeLoop(edges, i, edgeIDs, nodeIDs) ==
    IF i > Len(edges) THEN "nil"
    ELSE IF edges[i].id = "" THEN "ErrEmptyEdgeID"
    ELSE IF edges[i].id \in edgeIDs THEN "ErrDuplicateEdgeID"
    ELSE IF edges[i].source = "" \/ edges[i].target = "" THEN "ErrInvalidEdgeConnection"
    ELSE IF edges[i].source \notin nodeIDs THEN "ErrEdgeToUnknownNode"
    ELSE IF edges[i].target \notin nodeIDs THEN "ErrEdgeToUnknownNode"
    ELSE EdgeLoop(edges, i + 1, edgeIDs \cup {edges[i].id}, nodeIDs)

\* The whole function: the error kind returned, "nil" for no error.
\* Mutant: the start and end checks of lines 313-324 run before the node loop.
validateWorkflowStructurePositionsFirst(nodes, edges) ==
    IF Len(nodes) = 0 THEN "ErrInvalidWorkflowStructure"
    ELSE IF PositionChecks(nodes) # "nil" THEN PositionChecks(nodes)
    ELSE IF NodeLoop(nodes, 1, {}) # "nil" THEN NodeLoop(nodes, 1, {})
    ELSE EdgeLoop(edges, 1, {}, NodeIDSet(nodes))

validateWorkflowStructure(nodes, edges) ==
    IF Len(nodes) = 0 THEN "ErrInvalidWorkflowStructure"
    ELSE IF NodeLoop(nodes, 1, {}) # "nil" THEN NodeLoop(nodes, 1, {})
    ELSE IF PositionChecks(nodes) # "nil" THEN PositionChecks(nodes)
    ELSE EdgeLoop(edges, 1, {}, NodeIDSet(nodes))

----------------------------------------------------------------------------
(* Inputs of the validator specification *)

VNodeIDs == {"", "n1", "n2", "n3"}
VNodeTypes == {"", NodeTypeStart, NodeTypeForm, NodeTypeEnd}
VNodeDefs == {MkNode(id, type) : id \in VNodeIDs, type \in VNodeTypes}

VEdgeIDs == {"", "e1", "e2"}
VEdgeEnds == {"", "n1", "n2", "zz"}
VEdgeDefs == {MkEdge(id, s, t, "") : id \in VEdgeIDs, s \in VEdgeEnds, t \in VEdgeEnds}

\* Every node list up to MaxNodes is paired with a few edge lists, and every
\* edge list up to MaxEdges with a few structurally sound node lists.
VFewEdgeLists ==
    {<<>>, <<MkEdge("e1", "n1", "n2", "")>>, <<MkEdge("e1", "n1", "zz", "")>>}

VFewNodeLists ==
    {<<MkNode("n1", NodeTypeStart), MkNode("n2", NodeTypeEnd)>>,
     <<MkNode("n1", NodeTypeStart), MkNode("n3", NodeTypeForm), MkNode("n2", NodeTypeEnd)>>}

VGraphs ==
    (SeqsUpTo(VNodeDefs, MaxNodes) \X VFewEdgeLists)
        \cup (VFewNodeLists \X SeqsUpTo(VEdgeDefs, MaxEdges))

----------------------------------------------------------------------------
(* node.NodeOutputs (pkg/node) and condition.Node (pkg/node/condition) *)

\* Values of type `any`.
Str(x) == [t |-> "str", v |-> x]
Num(x) == [t |-> "num", v |-> x]
Bool(x) == [t |-> "bool", v |-> x]
Map(x) == [t |-> "map", v |-> x]

\* An empty map[string]any, and map update m[k] = x.
EmptyData == [k \in {} |-> Str("")]
Put(m, k, x) == [kk \in DOMAIN m \cup {k} |-> IF kk = k THEN x ELSE m[kk]]

\* node.NodeOutputs; the RFC3339 timestamps are left out.
MkOutputs(data, status, next) == [data |-> data, status |-> status, nextNodeID |-> next]

\* The zero NodeOutputs, which a lookup in PriorOutputs yields for a missing key.
ZeroOutputs == MkOutputs(EmptyData, "", "")

\* m[k].(float64): the pair (value, ok).
IsFloat(m, k) == k \in DOMAIN m /\ m[k].t = "num"

\* The switch of lines 442-453; an unknown operator leaves conditionMet false.
\* Mutant: greater_than evaluated as >=.
EvaluateLoose(operator, temperature, threshold) ==
    CASE operator = OperatorGreaterThan -> temperature >= threshold
      [] operator = OperatorLessThan -> temperature < threshold
      [] operator = OperatorEquals -> temperature = threshold
      [] operator = OperatorGreaterThanOrEqual -> temperature >= threshold
      [] operator = OperatorLessThanOrEqual -> temperature <= threshold
      [] OTHER -> FALSE

Evaluate(operator, temperature, threshold) ==
    CASE operator = OperatorGreaterThan -> temperature > threshold
      [] operator = OperatorLessThan -> temperature < threshold
      [] operator = OperatorEquals -> temperature = threshold
      [] operator = OperatorGreaterThanOrEqual -> temperature >= threshold
      [] operator = OperatorLessThanOrEqual -> temperature <= threshold
      [] OTHER -> FALSE

\* The display symbol of lines 467-477.
OperatorSymbol(operator) ==
    CASE operator = OperatorLessThan -> "<"
      [] operator = OperatorEquals -> "="
      [] operator = OperatorGreaterThanOrEqual -> ">="
      [] operator = OperatorLessThanOrEqual -> "<="
      [] OTHER -> ">"

\* condition.Node.Execute, lines 419-504.  config is the node's Config
\* (TrueRoute, FalseRoute); the result is the pair (outputs, err).
ConditionExecute(config, workflowInput, priorOutputs) ==
    LET tempNode == IF NodeIDWeatherAPI \in DOMAIN priorOutputs
                    THEN priorOutputs[NodeIDWeatherAPI] ELSE ZeroOutputs
    IN  IF ~IsFloat(tempNode.data, "temperature")
        THEN [outputs |-> MkOutputs(Put(EmptyData, "error", Str("Failed to get temperature")),
                                    StatusFailed, ""),
              err |-> "missing temperature"]
        ELSE LET temperature == tempNode.data["temperature"].v
                 threshold == workflowInput.threshold
                 operator == workflowInput.operator
                 conditionMet == Evaluate(operator, temperature, threshold)
                 result == [expression |-> OperatorSymbol(operator),
                            result |-> conditionMet,
                            temperature |-> temperature,
                            operator |-> operator,
                            threshold |-> threshold]
                 data == Put(Put(Put(EmptyData, "message", Str("condition evaluated")),
                                 "conditionResult", Map(result)),
                             "details", Map([conditionType |-> "temperature"]))
             IN  [outputs |-> MkOutputs(data, StatusCompleted,
                                        IF conditionMet THEN config.TrueRoute
                                                        ELSE config.FalseRoute),
                  err |-> "nil"]

\* condition.Node.Validate, lines 507-512.
ConditionValidate(config) ==
    IF config.TrueRoute = "" \/ config.FalseRoute = ""
    THEN "condition node requires both true and false routes"
    ELSE "nil"

----------------------------------------------------------------------------
(* Inputs of the condition-node specification *)

\* Samples and thresholds in tenths of a degree: 15.5, 20.0, 25.5.
CSamples == {155, 200, 255}
CThresholds == {155, 200, 255}
COperators == ValidOperators \cup {"invalid_operator"}
CRoutes == {"", "email", "end"}

\* The prior outputs the condition node may find: no weather-api entry, an
\* entry without temperature, a non-numeric temperature, a numeric one.
CPriorOutputs ==
    {[k \in {} |-> ZeroOutputs]}
    \cup {[k \in {NodeIDWeatherAPI} |-> MkOutputs(d, StatusCompleted, "")] :
            d \in {EmptyData, Put(EmptyData, "temperature", Str("hot"))}
                  \cup {Put(EmptyData, "temperature", Num(x)) : x \in CSamples}}

CInputs ==
    [config : [TrueRoute : CRoutes, FalseRoute : CRoutes],
     workflowInput : [threshold : CThresholds, operator : COperators],
     priorOutputs : CPriorOutputs]

----------------------------------------------------------------------------
(* Node instances and the registry (pkg/node, cmd/api/main.go) *)

\* A text that fmt.Sprintf builds from parts.
Fmt(parts) == [t |-> "fmt", v |-> parts]

\* m[k].(string) and m[k].(bool): ok.
IsString(m, k) == k \in DOMAIN m /\ m[k].t \in {"str", "fmt"}
IsBool(m, k) == k \in DOMAIN m /\ m[k].t = "bool"
IsMap(m, k) == k \in DOMAIN m /\ m[k].t = "map"

\* The per-variant Config structs; a variant leaves the fields of the other
\* variants at their zero values.
ZeroConfig ==
    [TrueRoute |-> "", FalseRoute |-> "", APIEndpoint |-> FALSE, Options |-> {},
     InputVariables |-> <<>>, Subject |-> <<>>, Body |-> <<>>]

\* A node instance: BaseNode (ID, Label, Description), its Type() and its
\* config.
MkInstance(model, type, config) ==
    [id |-> model.id, type |-> type, label |-> model.label,
     description |-> model.description, config |-> config]

\* A nil node.Node.
NilNode ==
    [id |-> "", type |-> "", label |-> <<>>, description |-> <<>>, config |-> ZeroConfig]

\* The NewNode factories: (node, err).
NewNode(model) ==
    CASE model.type = NodeTypeIntegration ->
            IF ~model.meta.apiEndpoint
            THEN [node |-> NilNode, err |-> "missing API endpoint"]
            ELSE [node |-> MkInstance(model, NodeTypeIntegration,
                                      [ZeroConfig EXCEPT !.APIEndpoint = TRUE,
                                                         !.Options = model.meta.options]),
                  err |-> "nil"]
      [] model.type = NodeTypeEmail ->
            [node |-> MkInstance(model, NodeTypeEmail,
                        IF model.meta.hasInputVariables
                        THEN [ZeroConfig EXCEPT !.InputVariables = model.meta.inputVariables,
                                                !.Subject = model.meta.subject,
                                                !.Body = model.meta.body]
                        ELSE ZeroConfig),
             err |-> "nil"]
      [] OTHER -> [node |-> MkInstance(model, model.type, ZeroConfig), err |-> "nil"]

\* A NodeFactory value.  The NewNode of a variant builds a node whose Type()
\* is that variant; mockFactory(nodeType, nil) and errorFactory(err) are the
\* factories of registry_test.go.
VariantFactory(nodeType) == [kind |-> "variant", nodeType |-> nodeType]
MockFactory(nodeType) == [kind |-> "mock", nodeType |-> nodeType]
ErrorFactory == [kind |-> "error", nodeType |-> ""]

\* factory(nodeModel): (node, err).
ApplyFactory(factory, nodeModel) ==
    CASE factory.kind = "variant" -> NewNode([nodeModel EXCEPT !.type = factory.nodeType])
      [] factory.kind = "mock" ->
            [node |-> MkInstance(nodeModel, factory.nodeType, ZeroConfig), err |-> "nil"]
      [] OTHER -> [node |-> NilNode, err |-> "factory error"]

\* NewRegistry: the empty factories map.
NewRegistry == [t \in {} |-> ErrorFactory]

\* Mutant: a type that has a factory keeps it.
RegisterKeepFirst(registry, nodeType, factory) ==
    [t \in DOMAIN registry \cup {nodeType} |->
        IF t \in DOMAIN registry THEN registry[t] ELSE factory]

\* Registry.Register: r.factories[nodeType] = factory.
Register(registry, nodeType, factory) ==
    [t \in DOMAIN registry \cup {nodeType} |->
        IF t = nodeType THEN factory ELSE registry[t]]

\* The Register calls of registerNodeTypes.
BuiltinRegistrations ==
    [i \in 1..6 |->
        LET nodeType == <<NodeTypeStart, NodeTypeForm, NodeTypeIntegration,
                          NodeTypeCondition, NodeTypeEmail, NodeTypeEnd>>[i]
        IN  [nodeType |-> nodeType, factory |-> VariantFactory(nodeType)]]

\* The registry after registerNodeTypes.
BuiltinRegistry ==
    LET r1 == Register(NewRegistry, NodeTypeStart, VariantFactory(NodeTypeStart))
        r2 == Register(r1, NodeTypeForm, VariantFactory(NodeTypeForm))
        r3 == Register(r2, NodeTypeIntegration, VariantFactory(NodeTypeIntegration))
        r4 == Register(r3, NodeTypeCondition, VariantFactory(NodeTypeCondition))
        r5 == Register(r4, NodeTypeEmail, VariantFactory(NodeTypeEmail))
    IN  Register(r5, NodeTypeEnd, VariantFactory(NodeTypeEnd))

\* Mutant: a failing factory's error is dropped and a bare node returned.
RegistryCreateLenient(registry, nodeModel) ==
    IF nodeModel.type \notin DOMAIN registry
    THEN [node |-> NilNode, err |-> "no factory registered for node type"]
    ELSE LET created == ApplyFactory(registry[nodeModel.type], nodeModel)
         IN  IF created.err # "nil"
             THEN [node |-> MkInstance(nodeModel, nodeModel.type, ZeroConfig), err |-> "nil"]
             ELSE created

\* Registry.Create.
RegistryCreate(registry, nodeModel) ==
    IF nodeModel.type \notin DOMAIN registry
    THEN [node |-> NilNode, err |-> "no factory registered for node type"]
    ELSE ApplyFactory(registry[nodeModel.type], nodeModel)

----------------------------------------------------------------------------
(* The node variants' Execute: (outputs, err, node after the call) *)

\* effects: the calls to collaborators made during the call ("fetch": the
\* weather client's HTTP request, "mail": the mailer).
Result(outputs, err, node) ==
    [outputs |-> outputs, err |-> err, node |-> node, effects |-> {}]

WithEffect(result, effect) == [result EXCEPT !.effects = @ \cup {effect}]

\* Mutant: the error is returned with outputs whose status is Completed.
FailureStatusCompleted(data, err, node) ==
    Result(MkOutputs(data, StatusCompleted, ""), err, node)

Failure(data, err, node) == Result(MkOutputs(data, StatusFailed, ""), err, node)

ErrorData(msg) == Put(EmptyData, "error", msg)

\* start.Node.Execute
StartExecute(n) == Result(MkOutputs(EmptyData, StatusCompleted, ""), "nil", n)

\* end.Node.Execute
EndExecute(n) ==
    Result(MkOutputs(Put(EmptyData, "summary",
                         Map([message |-> "Workflow execution finished"])),
                     StatusCompleted, ""),
           "nil", n)

\* form.Node.Execute
FormExecute(n, workflowInput) ==
    LET formData == [name |-> workflowInput.name, email |-> workflowInput.email,
                     city |-> workflowInput.city, threshold |-> workflowInput.threshold,
                     operator |-> workflowInput.operator]
        data == [k \in {"message", "formData", "details", "name", "email", "city"} |->
                    CASE k = "message" -> Str("Form data processed successfully")
                      [] k = "formData" -> Map(formData)
                      [] k = "details" -> Map([fieldCount |-> 5])
                      [] k = "name" -> Str(workflowInput.name)
                      [] k = "email" -> Str(workflowInput.email)
                      [] k = "city" -> Str(workflowInput.city)]
    IN  Result(MkOutputs(data, StatusCompleted, ""), "nil", n)

\* strings.ReplaceAll(text, "{{key}}", value) on a token sequence.
\* Mutant: the text is returned as it is.
ReplaceAllNothing(text, placeholder, value) == text

ReplaceAll(text, placeholder, value) ==
    [i \in 1..Len(text) |-> IF text[i] = placeholder THEN value ELSE text[i]]

\* weather.Client.GetWeather: env is what the endpoint does for this call.
\*   [kind |-> "ok", temperature |-> x]      HTTP 200 with a numeric temperature
\*   [kind |-> "status", ...]                a non-200 status
\*   [kind |-> "malformed"]                  a body that is not JSON
\*   [kind |-> "format"]                     JSON without a current_weather object
\*   [kind |-> "nonnumeric"]                 a temperature that is not a number
\*   [kind |-> "timeout" | "cancelled"]      the context ends during the request
\*   [kind |-> "network"]                    the request fails
\* Mutant: the status code of the response is not looked at.
GetWeatherAnyStatus(env) ==
    CASE env.kind \in {"ok", "status"} -> [temperature |-> env.temperature, err |-> "nil"]
      [] env.kind = "malformed" -> [temperature |-> 0, err |-> "failed to parse weather API response"]
      [] env.kind = "format" -> [temperature |-> 0, err |-> "invalid weather API response format"]
      [] env.kind = "nonnumeric" -> [temperature |-> 0, err |-> "invalid temperature value in API response"]
      [] env.kind = "timeout" ->
            [temperature |-> 0, err |-> "failed to call weather API: context deadline exceeded"]
      [] env.kind = "cancelled" ->
            [temperature |-> 0, err |-> "failed to call weather API: context canceled"]
      [] OTHER -> [temperature |-> 0, err |-> "failed to call weather API"]

GetWeather(env) ==
    CASE env.kind = "ok" -> [temperature |-> env.temperature, err |-> "nil"]
      [] env.kind = "status" -> [temperature |-> 0, err |-> "weather API returned status"]
      [] env.kind = "malformed" -> [temperature |-> 0, err |-> "failed to parse weather API response"]
      [] env.kind = "format" -> [temperature |-> 0, err |-> "invalid weather API response format"]
      [] env.kind = "nonnumeric" -> [temperature |-> 0, err |-> "invalid temperature value in API response"]
      [] env.kind = "timeout" ->
            [temperature |-> 0, err |-> "failed to call weather API: context deadline exceeded"]
      [] env.kind = "cancelled" ->
            [temperature |-> 0, err |-> "failed to call weather API: context canceled"]
      [] OTHER -> [temperature |-> 0, err |-> "failed to call weather API"]

\* integration.Node.Execute
IntegrationExecute(n, priorOutputs, env) ==
    IF NodeIDForm \notin DOMAIN priorOutputs
    THEN Failure(ErrorData(Str("Failed to get form data")), "missing form data", n)
    ELSE IF ~IsString(priorOutputs[NodeIDForm].data, "city")
    THEN Failure(ErrorData(Str("Failed to get city from form output")), "missing city", n)
    ELSE LET city == priorOutputs[NodeIDForm].data["city"].v
             n2 == [n EXCEPT !.description = ReplaceAll(n.description, "{{city}}", city)]
         IN  IF city \notin n.config.Options
             THEN Failure(ErrorData(Fmt(<<"City not found: ", city>>)), "city not found", n2)
             ELSE LET weatherData == GetWeather(env)
                  IN  IF weatherData.err # "nil"
                      THEN WithEffect(
                               Failure(Put(ErrorData(Fmt(<<"Weather API error: ", weatherData.err>>)),
                                           "message", Str("Weather API request failed")),
                                       "weather API error", n2),
                               "fetch")
                      ELSE LET data ==
                                 [k \in {"message", "apiResponse", "temperature", "location"} |->
                                    CASE k = "message" -> Fmt(<<"Retrieved temperature for ", city>>)
                                      [] k = "apiResponse" ->
                                            Map([temperature |-> weatherData.temperature,
                                                 location |-> city])
                                      [] k = "temperature" -> Num(weatherData.temperature)
                                      [] k = "location" -> Str(city)]
                           IN  WithEffect(Result(MkOutputs(data, StatusCompleted, ""), "nil", n2),
                                          "fetch")

\* The string processTemplate puts in for a value: "%.1f" for a float64, the
\* string itself, "%v" for anything else.
FormatValue(value) ==
    CASE value.t = "num" -> Fmt(<<"%.1f", value.v>>)
      [] value.t \in {"str", "fmt"} -> value
      [] OTHER -> Fmt(<<"%v", value>>)

\* Mutant: a {{key}} token without a variable is dropped.
ProcessTemplateDropUnknown(template, variables) ==
    [i \in 1..Len(template) |->
        IF template[i].t = "ph"
        THEN IF template[i].v \in DOMAIN variables
             THEN FormatValue(variables[template[i].v]) ELSE Str("")
        ELSE template[i]]

\* processTemplate: every {{key}} token with key in variables is replaced by
\* the formatted value; other tokens stay.
ProcessTemplate(template, variables) ==
    [i \in 1..Len(template) |->
        IF template[i].t = "ph" /\ template[i].v \in DOMAIN variables
        THEN FormatValue(variables[template[i].v]) ELSE template[i]]

\* The values the scan of all prior outputs may find for a variable: Go's map
\* iteration order is unspecified, so any output holding the key may be first.
Candidates(priorOutputs, varName) ==
    {priorOutputs[k].data[varName] :
        k \in {kk \in DOMAIN priorOutputs : varName \in DOMAIN priorOutputs[kk].data}}

\* The assignments of the configured variables the scans may produce.
TemplateVarChoices(inputVariables, priorOutputs) ==
    LET names == {inputVariables[i] : i \in 1..Len(inputVariables)}
    IN  {tv \in [names -> UNION {Candidates(priorOutputs, v) : v \in names}] :
            \A v \in names : tv[v] \in Candidates(priorOutputs, v)}

\* The first configured variable no prior output holds, 0 if none.
FirstMissing(inputVariables, priorOutputs) ==
    IF \A i \in 1..Len(inputVariables) : Candidates(priorOutputs, inputVariables[i]) # {}
    THEN 0
    ELSE CHOOSE i \in 1..Len(inputVariables) :
            /\ Candidates(priorOutputs, inputVariables[i]) = {}
            /\ \A j \in 1..(i - 1) : Candidates(priorOutputs, inputVariables[j]) # {}

\* Mutant: the failure carries no data["error"].
EmailFailureNoErrorData(msg, err, n) ==
    Failure(Put(EmptyData, "message", Str("Failed to process email")), err, n)

EmailFailure(msg, err, n) ==
    Failure(Put(ErrorData(msg), "message", Str("Failed to process email")), err, n)

\* Mutant: the condition result is not looked at.
EmailExecuteIgnoringCondition(n, priorOutputs) ==
    IF NodeIDForm \notin DOMAIN priorOutputs
    THEN {EmailFailure(Str("Failed to get form data"), "missing form data", n)}
    ELSE IF ~IsString(priorOutputs[NodeIDForm].data, "email")
    THEN {EmailFailure(Str("Failed to get email from form output"), "missing email", n)}
    ELSE {WithEffect(Result(MkOutputs(Put(EmptyData, "message", Str("Email sent successfully")),
                                      StatusCompleted, ""), "nil", n), "mail")}

\* email.Node.Execute: the set of possible results.
EmailExecute(n, priorOutputs) ==
    IF NodeIDCondition \notin DOMAIN priorOutputs
    THEN {EmailFailure(Str("Failed to get condition result"), "failed to get condition result", n)}
    ELSE IF ~IsMap(priorOutputs[NodeIDCondition].data, "conditionResult")
    THEN {EmailFailure(Str("Failed to get condition result"), "invalid condition result format", n)}
    ELSE IF "result" \notin DOMAIN priorOutputs[NodeIDCondition].data["conditionResult"].v
    THEN {EmailFailure(Str("Failed to get condition result"), "invalid condition result format", n)}
    ELSE IF ~priorOutputs[NodeIDCondition].data["conditionResult"].v.result
    THEN {Result(MkOutputs([k \in {"message", "details"} |->
                               IF k = "message" THEN Str("Email not sent - condition not met")
                               ELSE Map([reason |-> "Condition not met"])],
                           StatusCompleted, ""), "nil", n)}
    ELSE IF NodeIDForm \notin DOMAIN priorOutputs
    THEN {EmailFailure(Str("Failed to get form data"), "missing form data", n)}
    ELSE IF ~IsString(priorOutputs[NodeIDForm].data, "email")
    THEN {EmailFailure(Str("Failed to get email from form output"), "missing email", n)}
    ELSE IF FirstMissing(n.config.InputVariables, priorOutputs) # 0
    THEN {EmailFailure(Fmt(<<"Missing required variable: ",
                             n.config.InputVariables[FirstMissing(n.config.InputVariables, priorOutputs)]>>),
                       "missing required variable", n)}
    ELSE {WithEffect(Result(MkOutputs([k \in {"message", "details", "emailContent"} |->
                              CASE k = "message" -> Str("Email sent successfully")
                                [] k = "details" -> Map([outputVariables |-> <<"emailSent">>])
                                [] k = "emailContent" ->
                                      Map([to |-> priorOutputs[NodeIDForm].data["email"].v,
                                           subject |-> ProcessTemplate(n.config.Subject, tv),
                                           body |-> ProcessTemplate(n.config.Body, tv)])],
                           StatusCompleted, ""), "nil", n), "mail") :
            tv \in TemplateVarChoices(n.config.InputVariables, priorOutputs)}

\* Node.Execute, dispatched on the instance's variant: the possible results.
NodeExecute(n, workflowInput, priorOutputs, env) ==
    CASE n.type = NodeTypeStart -> {StartExecute(n)}
      [] n.type = NodeTypeForm -> {FormExecute(n, workflowInput)}
      [] n.type = NodeTypeIntegration -> {IntegrationExecute(n, priorOutputs, env)}
      [] n.type = NodeTypeCondition ->
            {LET r == ConditionExecute(n.config, workflowInput, priorOutputs)
             IN  Result(r.outputs, r.err, n)}
      [] n.type = NodeTypeEmail -> EmailExecute(n, priorOutputs)
      [] OTHER -> {EndExecute(n)}

----------------------------------------------------------------------------
(* Engine.initializeWorkflow (internal/execution, lines 115-169) *)

EmptyMap == [k \in {} |-> ""]

\* The node loop, lines 123-134: instances by id and startNodeID so far, or
\* the first instantiation error.
RECURSIVE CreateNodes(_, _, _, _, _)
CreateNodes(registry, models, i, nodes, startNodeID) ==
    IF i > Len(models)
    THEN [err |-> "nil", nodes |-> nodes, startNodeID |-> startNodeID]
    ELSE LET c == RegistryCreate(registry, models[i])
         IN  IF c.err # "nil"
             THEN [err |-> "failed to create node", nodes |-> EmptyMap, startNodeID |-> ""]
             ELSE CreateNodes(registry, models, i + 1,
                              Put(nodes, models[i].id, c.node),
                              IF c.node.type = NodeTypeStart THEN models[i].id
                                                             ELSE startNodeID)

\* SetTrueRoute / SetFalseRoute on the condition node that is the edge's source,
\* lines 155-165.
\* Mutant: the "true" edge sets the false route and the "false" edge the true route.
ConfigureRouteSwapped(nodes, edge) ==
    IF /\ edge.sourceHandle \in {"true", "false"}
       /\ edge.source \in DOMAIN nodes
       /\ nodes[edge.source].type = NodeTypeCondition
    THEN IF edge.sourceHandle = "true"
         THEN [nodes EXCEPT ![edge.source].config.FalseRoute = edge.target]
         ELSE [nodes EXCEPT ![edge.source].config.TrueRoute = edge.target]
    ELSE nodes

\* Mutant: the route is set to the edge's source instead of its target.
ConfigureRouteSource(nodes, edge) ==
    IF /\ edge.sourceHandle \in {"true", "false"}
       /\ edge.source \in DOMAIN nodes
       /\ nodes[edge.source].type = NodeTypeCondition
    THEN IF edge.sourceHandle = "true"
         THEN [nodes EXCEPT ![edge.source].config.TrueRoute = edge.source]
         ELSE [nodes EXCEPT ![edge.source].config.FalseRoute = edge.source]
    ELSE nodes

ConfigureRoute(nodes, edge) ==
    IF /\ edge.sourceHandle \in {"true", "false"}
       /\ edge.source \in DOMAIN nodes
       /\ nodes[edge.source].type = NodeTypeCondition
    THEN IF edge.sourceHandle = "true"
         THEN [nodes EXCEPT ![edge.source].config.TrueRoute = edge.target]
         ELSE [nodes EXCEPT ![edge.source].config.FalseRoute = edge.target]
    ELSE nodes

\* edges[edge.Source][routeKey] = edge.Target, lines 147-152.
\* Mutant: an existing route is kept, the first edge wins.
AddRouteKeepFirst(edges, edge) ==
    IF edge.source \in DOMAIN edges /\ edge.sourceHandle \in DOMAIN edges[edge.source]
    THEN edges
    ELSE Put(edges, edge.source,
             Put(IF edge.source \in DOMAIN edges THEN edges[edge.source] ELSE EmptyMap,
                 edge.sourceHandle, edge.target))

AddRoute(edges, edge) ==
    Put(edges, edge.source,
        Put(IF edge.source \in DOMAIN edges THEN edges[edge.source] ELSE EmptyMap,
            edge.sourceHandle, edge.target))

\* The edge loop, lines 146-166.
RECURSIVE BuildRoutes(_, _, _, _)
BuildRoutes(wfEdges, i, nodes, edges) ==
    IF i > Len(wfEdges) THEN [nodes |-> nodes, edges |-> edges]
    ELSE BuildRoutes(wfEdges, i + 1, ConfigureRoute(nodes, wfEdges[i]),
                     AddRoute(edges, wfEdges[i]))

\* Mutant: the missing start node is not reported.
initializeWorkflowNoStartCheck(registry, workflow) ==
    LET created == CreateNodes(registry, workflow.nodes, 1, EmptyMap, "")
    IN  IF created.err # "nil"
        THEN [err |-> created.err, nodes |-> EmptyMap, edges |-> EmptyMap, startNodeID |-> ""]
        ELSE LET routed == BuildRoutes(workflow.edges, 1, created.nodes, EmptyMap)
             IN  [err |-> "nil", nodes |-> routed.nodes, edges |-> routed.edges,
                  startNodeID |-> created.startNodeID]

initializeWorkflow(registry, workflow) ==
    LET created == CreateNodes(registry, workflow.nodes, 1, EmptyMap, "")
    IN  IF created.err # "nil"
        THEN [err |-> created.err, nodes |-> EmptyMap, edges |-> EmptyMap, startNodeID |-> ""]
        ELSE IF created.startNodeID = ""
        THEN [err |-> "no start node found in workflow",
              nodes |-> EmptyMap, edges |-> EmptyMap, startNodeID |-> ""]
        ELSE LET routed == BuildRoutes(workflow.edges, 1, created.nodes, EmptyMap)
             IN  [err |-> "nil", nodes |-> routed.nodes, edges |-> routed.edges,
                  startNodeID |-> created.startNodeID]

----------------------------------------------------------------------------
(* Engine.createExecutionStep and Engine.findNextNode (lines 172-250) *)

\* The step record; label/description are those of the node after the call.
\* Mutant: the error message is not copied into the step.
createExecutionStepNoError(node, nodeID, outputs, stepNumber) ==
    [nodeID |-> nodeID,
     nodeType |-> node.type,
     status |-> IF outputs.status = StatusFailed THEN StatusFailed ELSE StatusCompleted,
     output |-> outputs.data,
     error |-> Str(""),
     label |-> node.label,
     description |-> node.description,
     stepNumber |-> stepNumber]

createExecutionStep(node, nodeID, outputs, stepNumber) ==
    [nodeID |-> nodeID,
     nodeType |-> node.type,
     status |-> IF outputs.status = StatusFailed THEN StatusFailed ELSE StatusCompleted,
     output |-> outputs.data,
     error |-> IF IsString(outputs.data, "error") THEN outputs.data["error"] ELSE Str(""),
     label |-> node.label,
     description |-> node.description,
     stepNumber |-> stepNumber]

\* edges[currentNodeID][routeKey]: exists.
HasRoute(edges, nodeID, routeKey) ==
    nodeID \in DOMAIN edges /\ routeKey \in DOMAIN edges[nodeID]

\* (nextNodeID, err)
\* Mutant: a dead end is answered with the empty node id instead of an error.
findNextNodeNoError(currentNode, currentNodeID, outputs, edges) ==
    IF outputs.nextNodeID # ""
    THEN [next |-> outputs.nextNodeID, err |-> "nil"]
    ELSE LET routeKey == IF IsBool(outputs.data, "conditionMet") /\ outputs.data["conditionMet"].v
                         THEN "true" ELSE "false"
         IN  IF currentNode.type = NodeTypeCondition /\ HasRoute(edges, currentNodeID, routeKey)
             THEN [next |-> edges[currentNodeID][routeKey], err |-> "nil"]
             ELSE IF HasRoute(edges, currentNodeID, "")
             THEN [next |-> edges[currentNodeID][""], err |-> "nil"]
             ELSE [next |-> "", err |-> "nil"]

findNextNode(currentNode, currentNodeID, outputs, edges) ==
    IF outputs.nextNodeID # ""
    THEN [next |-> outputs.nextNodeID, err |-> "nil"]
    ELSE LET routeKey == IF IsBool(outputs.data, "conditionMet") /\ outputs.data["conditionMet"].v
                         THEN "true" ELSE "false"
         IN  IF currentNode.type = NodeTypeCondition /\ HasRoute(edges, currentNodeID, routeKey)
             THEN [next |-> edges[currentNodeID][routeKey], err |-> "nil"]
             ELSE IF HasRoute(edges, currentNodeID, "")
             THEN [next |-> edges[currentNodeID][""], err |-> "nil"]
             ELSE [next |-> "", err |-> "node has no outgoing edges"]

----------------------------------------------------------------------------
(* Inputs of the engine specification *)

MkWorkflow(id, name, nodes, edges) ==
    [id |-> id, name |-> name, version |-> 1, nodes |-> nodes, edges |-> edges]

MkInput(city, threshold, operator) ==
    [name |-> "Alice", email |-> "alice@example.com", city |-> city,
     threshold |-> threshold, operator |-> operator]

\* The sample workflow of the migration (nodes and edges e1..e6).
SampleCities == {"Sydney", "Melbourne", "Brisbane", "Perth", "Adelaide"}

SampleBody ==
    <<Str("Weather alert for "), [t |-> "ph", v |-> "city"], Str("! Temperature is "),
      [t |-> "ph", v |-> "temperature"], Str(" C!")>>

IntegrationMeta == [NoMeta EXCEPT !.apiEndpoint = TRUE, !.options = SampleCities]

EmailMeta ==
    [NoMeta EXCEPT !.hasInputVariables = TRUE,
                   !.inputVariables = <<"name", "city", "temperature">>,
                   !.subject = <<Str("Weather Alert")>>,
                   !.body = SampleBody]

StartNode == MkNode("start", NodeTypeStart)
FormNode == MkNode("form", NodeTypeForm)
WeatherNode ==
    MkNodeFull("weather-api", NodeTypeIntegration,
               <<"Fetch current temperature for ", "{{city}}">>, IntegrationMeta)
ConditionNode == MkNode("condition", NodeTypeCondition)
EmailNode == MkNodeFull("email", NodeTypeEmail, <<>>, EmailMeta)
EndNode == MkNode("end", NodeTypeEnd)

SampleNodes == <<StartNode, FormNode, WeatherNode, ConditionNode, EmailNode, EndNode>>

SampleEdges ==
    <<MkEdge("e1", "start", "form", ""),
      MkEdge("e2", "form", "weather-api", ""),
      MkEdge("e3", "weather-api", "condition", ""),
      MkEdge("e4", "condition", "email", "true"),
      MkEdge("e5", "condition", "end", "false"),
      MkEdge("e6", "email", "end", "")>>

SampleWorkflow == MkWorkflow("w1", "Weather Check System", SampleNodes, SampleEdges)

\* What the weather endpoint may do: 25.5 or 15.5 degrees, or a failure.
EnvOK(x) == [kind |-> "ok", temperature |-> x]
EnvFail(kind) == [kind |-> kind, temperature |-> 0]
FailureKinds ==
    {"status", "malformed", "format", "nonnumeric", "network", "timeout", "cancelled"}
SampleEnvs ==
    {EnvOK(255), EnvOK(155)} \cup {EnvFail(k) : k \in FailureKinds}

SampleInputs ==
    {MkInput(city, threshold, op) :
        city \in {"Sydney", "sydney", "Nowhereville"},
        threshold \in {200, 255},
        op \in {OperatorGreaterThan, OperatorLessThanOrEqual}}

\* Small graphs: a node list and every edge list up to MaxEdges over its ids
\* and one id that names no node.  Only a condition node gets "true" and
\* "false" handles.
HandlesOf(node) ==
    IF node.type = NodeTypeCondition THEN {"", "true", "false"} ELSE {""}

EdgeDefsOver(sources, nodes) ==
    UNION {{MkEdge("", nodes[i].id, tgt, h) :
                tgt \in NodeIDSet(nodes) \cup {"ghost"}, h \in HandlesOf(nodes[i])} :
           i \in sources}

\* Edge ids by position, from the given offset.
EdgeIDNames == <<"e1", "e2", "e3", "e4", "e5", "e6", "e7", "e8", "e9">>

WithEdgeIDs(edges, offset) ==
    [i \in 1..Len(edges) |-> [edges[i] EXCEPT !.id = EdgeIDNames[i + offset]]]

SmallNodeLists ==
    {<<StartNode, FormNode, EndNode>>,
     <<StartNode, ConditionNode, EndNode>>,
     <<StartNode, MkNode("end1", NodeTypeEnd), EndNode>>,
     <<StartNode, MkNode("weather-api", NodeTypeIntegration), EndNode>>,
     <<StartNode, MkNode("x", "webhook"), EndNode>>,
     <<FormNode, EndNode>>}

SmallGraphs ==
    UNION {{nodes} \X SeqsUpTo(EdgeDefsOver(1..Len(nodes), nodes), MaxEdges) :
             nodes \in SmallNodeLists}

SmallWorkflows ==
    {MkWorkflow("w2", "small", graph[1], WithEdgeIDs(graph[2], 0)) : graph \in SmallGraphs}

\* The sample graph up to its condition node, with every choice of up to
\* MaxEdges routes out of the condition and email nodes.
BranchWorkflows ==
    {MkWorkflow("w3", "branch", SampleNodes,
                SubSeq(SampleEdges, 1, 3) \o WithEdgeIDs(edges, 3)) :
        edges \in SeqsUpTo(EdgeDefsOver({4, 5}, SampleNodes), MaxEdges)}

DefaultInput == MkInput("Sydney", 200, OperatorGreaterThan)

EngineCalls ==
    [workflow : {SampleWorkflow}, input : SampleInputs, env : SampleEnvs]
        \cup [workflow : SmallWorkflows, input : {DefaultInput}, env : {EnvOK(255)}]
        \cup [workflow : BranchWorkflows,
              input : {DefaultInput, MkInput("Sydney", 255, OperatorGreaterThan)},
              env : {EnvOK(255)}]

----------------------------------------------------------------------------
(* Engine.Execute (internal/execution, lines 27-112) *)

\* A nil *WorkflowExecution.
NilRecord == [present |-> FALSE, status |-> "", steps |-> <<>>]

Record(execution) == [present |-> TRUE, status |-> execution.status, steps |-> execution.steps]

NotReturned == [record |-> NilRecord, err |-> "pending"]

NoCall == [workflow |-> MkWorkflow("", "", <<>>, <<>>), input |-> MkInput("", 0, ""),
           env |-> EnvFail("none")]

IdleEngine ==
    /\ ePc = "idle"
    /\ eCall = NoCall
    /\ eNodes = EmptyMap
    /\ eEdges = EmptyMap
    /\ eCurrent = ""
    /\ eExecution = [status |-> "", steps |-> <<>>]
    /\ ePrior = EmptyMap
    /\ eRet = NotReturned
    /\ eEffects = {}

\* Lines 27-58: the call up to the first loop iteration.
EngineStart(call) ==
    LET init == initializeWorkflow(rFactories, call.workflow)
    IN  /\ eCall' = call
        /\ eExecution' = [status |-> StatusRunning, steps |-> <<>>]
        /\ ePrior' = EmptyMap
        /\ eEffects' = {}
        /\ IF init.err # "nil"
           THEN /\ ePc' = "returned"
                /\ eRet' = [record |-> NilRecord, err |-> init.err]
                /\ UNCHANGED <<eNodes, eEdges, eCurrent>>
           ELSE /\ ePc' = "running"
                /\ eNodes' = init.nodes
                /\ eEdges' = init.edges
                /\ eCurrent' = init.startNodeID
                /\ eRet' = NotReturned

\* Lines 60-109: one iteration of the loop.
EngineIteration ==
    IF eCurrent \notin DOMAIN eNodes
    THEN /\ ePc' = "returned"
         /\ eRet' = [record |-> NilRecord, err |-> "node not found in workflow"]
         /\ UNCHANGED <<eCall, eNodes, eEdges, eCurrent, eExecution, ePrior, eEffects>>
    ELSE \E r \in NodeExecute(eNodes[eCurrent], eCall.input, ePrior, eCall.env) :
            LET step == createExecutionStep(r.node, eCurrent, r.outputs,
                                            Len(eExecution.steps) + 1)
                steps == Append(eExecution.steps, step)
                next == findNextNode(r.node, eCurrent, r.outputs, eEdges)
            IN  /\ eNodes' = [eNodes EXCEPT ![eCurrent] = r.node]
                /\ ePrior' = Put(ePrior, eCurrent, r.outputs)
                /\ eEffects' = eEffects \cup r.effects
                /\ UNCHANGED <<eCall, eEdges>>
                /\ IF r.err # "nil" \/ r.outputs.status = StatusFailed
                   THEN /\ eExecution' = [status |-> StatusFailed, steps |-> steps]
                        /\ eRet' = [record |-> Record(eExecution'), err |-> "nil"]
                        /\ ePc' = "returned"
                        /\ UNCHANGED eCurrent
                   ELSE IF r.node.type = NodeTypeEnd
                   THEN /\ eExecution' = [status |-> StatusCompleted, steps |-> steps]
                        /\ eRet' = [record |-> Record(eExecution'), err |-> "nil"]
                        /\ ePc' = "returned"
                        /\ UNCHANGED eCurrent
                   ELSE /\ eExecution' = [status |-> StatusRunning, steps |-> steps]
                        /\ IF next.err # "nil"
                           THEN /\ eRet' = [record |-> NilRecord, err |-> next.err]
                                /\ ePc' = "returned"
                                /\ UNCHANGED eCurrent
                           ELSE /\ eRet' = NotReturned
                                /\ ePc' = "running"
                                /\ eCurrent' = next.next

----------------------------------------------------------------------------
(* Engine.Execute as a function of its locals, for calls that run
   concurrently on one Engine *)

\* The locals of one call after lines 27-58.
StartOf(registry, call) ==
    LET init == initializeWorkflow(registry, call.workflow)
    IN  IF init.err # "nil"
        THEN [pc |-> "returned", nodes |-> EmptyMap, edges |-> EmptyMap, current |-> "",
              execution |-> [status |-> StatusRunning, steps |-> <<>>],
              prior |-> EmptyMap, ret |-> [record |-> NilRecord, err |-> init.err]]
        ELSE [pc |-> "running", nodes |-> init.nodes, edges |-> init.edges,
              current |-> init.startNodeID,
              execution |-> [status |-> StatusRunning, steps |-> <<>>],
              prior |-> EmptyMap, ret |-> NotReturned]

\* The locals after one iteration of the loop, lines 60-109, given the node's
\* result r.
AfterNode(L, r) ==
    LET step == createExecutionStep(r.node, L.current, r.outputs, Len(L.execution.steps) + 1)
        steps == Append(L.execution.steps, step)
        next == findNextNode(r.node, L.current, r.outputs, L.edges)
        L1 == [L EXCEPT !.nodes = [L.nodes EXCEPT ![L.current] = r.node],
                        !.prior = Put(L.prior, L.current, r.outputs)]
        done(status) ==
            [L1 EXCEPT !.pc = "returned",
                       !.execution = [status |-> status, steps |-> steps],
                       !.ret = [record |-> Record([status |-> status, steps |-> steps]),
                                err |-> "nil"]]
    IN  IF r.err # "nil" \/ r.outputs.status = StatusFailed
        THEN done(StatusFailed)
        ELSE IF r.node.type = NodeTypeEnd
        THEN done(StatusCompleted)
        ELSE IF next.err # "nil"
        THEN [L1 EXCEPT !.pc = "returned",
                        !.execution = [status |-> StatusRunning, steps |-> steps],
                        !.ret = [record |-> NilRecord, err |-> next.err]]
        ELSE [L1 EXCEPT !.execution = [status |-> StatusRunning, steps |-> steps],
                        !.current = next.next]

\* The possible locals after one iteration.
IterationOf(L, call) ==
    IF L.current \notin DOMAIN L.nodes
    THEN {[L EXCEPT !.pc = "returned",
                    !.ret = [record |-> NilRecord, err |-> "node not found in workflow"]]}
    ELSE {AfterNode(L, r) : r \in NodeExecute(L.nodes[L.current], call.input, L.prior, call.env)}

\* What a call that runs alone may return; a traversal of more than MaxSteps
\* steps is cut off.
RECURSIVE ReturnsFrom(_, _)
ReturnsFrom(L, call) ==
    IF L.pc = "returned" THEN {L.ret}
    ELSE IF Len(L.execution.steps) >= MaxSteps THEN {}
    ELSE UNION {ReturnsFrom(L2, call) : L2 \in IterationOf(L, call)}

RunAlone(registry, call) == ReturnsFrom(StartOf(registry, call), call)

\* The pointer NewNode returns for the node id in call k.
\* Mutant: one instance per node id, whatever the call.
AllocPerNodeID(k, nodeID) == <<1, nodeID>>

\* Each factory call allocates: &Node{...}.
Alloc(k, nodeID) == <<k, nodeID>>

\* The call's map nodes: id -> pointer.
Pointers(k, nodes) == [id \in DOMAIN nodes |-> Alloc(k, id)]

\* The heap after the instances of `nodes` are stored behind `pointers`.
Store(heap, pointers, nodes) ==
    LET written == {pointers[id] : id \in DOMAIN pointers}
    IN  [a \in DOMAIN heap \cup written |->
            IF a \in written THEN nodes[a[2]] ELSE heap[a]]

\* The instances a call reaches through its pointers.
Deref(heap, pointers) == [id \in DOMAIN pointers |-> heap[pointers[id]]]

----------------------------------------------------------------------------
(* WorkflowServiceImpl (internal/workflow/workflow.go) over the repository *)

\* A *models.Workflow as the service sees it; NoWorkflow is the nil pointer.
Wf(id, name, nodes, edges) ==
    [present |-> TRUE, id |-> id, name |-> name, nodes |-> nodes, edges |-> edges]

NoWorkflow == [present |-> FALSE, id |-> "", name |-> "", nodes |-> <<>>, edges |-> <<>>]

\* No row for the id in table workflows.
Absent == NoWorkflow

RowOrders(seq) ==
    {[i \in 1..Len(seq) |-> seq[p[i]]] :
        p \in {q \in [1..Len(seq) -> 1..Len(seq)] :
                  \A i, j \in 1..Len(seq) : q[i] = q[j] => i = j}}

\* WorkflowServiceImpl.GetWorkflow: repo.Get, GetNodes, GetEdges.  The node
\* and edge queries have no ORDER BY, so the rows come back in any order.
\* NoWorkflow stands for ErrWorkflowNotFound.
GetWorkflow(repo, id) ==
    IF id \notin DOMAIN repo \/ ~repo[id].present
    THEN {NoWorkflow}
    ELSE {Wf(id, repo[id].name, nodes, edges) :
              nodes \in RowOrders(repo[id].nodes),
              edges \in RowOrders(repo[id].edges)}

\* nodesMap1 / edgesMap1: the last element with the id.
LastWithID(seq, id) ==
    seq[CHOOSE i \in 1..Len(seq) :
            /\ seq[i].id = id
            /\ \A j \in (i + 1)..Len(seq) : seq[j].id # id]

\* Position and the display fields of an edge are the same in every workflow
\* of the model; of what differs, the comparison reads the name, the ids, the
\* node types and labels and the edges' source, target and source handle,
\* and does not read a node's description and metadata.
workflowsEqual(wf1, wf2) ==
    /\ wf1.name = wf2.name
    /\ Len(wf1.nodes) = Len(wf2.nodes)
    /\ Len(wf1.edges) = Len(wf2.edges)
    /\ \A i \in 1..Len(wf2.nodes) :
          /\ \E j \in 1..Len(wf1.nodes) : wf1.nodes[j].id = wf2.nodes[i].id
          /\ LastWithID(wf1.nodes, wf2.nodes[i].id).type = wf2.nodes[i].type
          /\ LastWithID(wf1.nodes, wf2.nodes[i].id).label = wf2.nodes[i].label
    /\ \A i \in 1..Len(wf2.edges) :
          /\ \E j \in 1..Len(wf1.edges) : wf1.edges[j].id = wf2.edges[i].id
          /\ LET edge1 == LastWithID(wf1.edges, wf2.edges[i].id)
             IN  /\ edge1.source = wf2.edges[i].source
                 /\ edge1.target = wf2.edges[i].target
                 /\ edge1.sourceHandle = wf2.edges[i].sourceHandle

validateWorkflow(wf) ==
    IF wf.name = "" THEN "workflow requires a name"
    ELSE validateWorkflowStructure(wf.nodes, wf.edges)

\* The outcome of a service method: the repository after it, the workflow it
\* handed to a repository write (NoWorkflow: no write was invoked) and its error.
Written(repo, write, err) == [repo |-> repo, write |-> write, err |-> err]

\* repo.Create inserts a new row; an existing id violates the primary key.
CreateWorkflow(repo, workflow) ==
    IF validateWorkflowStructure(workflow.nodes, workflow.edges) # "nil"
    THEN Written(repo, NoWorkflow, "cannot create workflow")
    ELSE IF repo[workflow.id].present
         THEN Written(repo, workflow, "failed to persist workflow")
         ELSE Written([repo EXCEPT ![workflow.id] = workflow], workflow, "nil")

\* Mutant: the update reports success and stores nothing.
UpdateWorkflowNotStored(repo, workflow) ==
    IF validateWorkflowStructure(workflow.nodes, workflow.edges) # "nil"
    THEN Written(repo, NoWorkflow, "cannot update workflow")
    ELSE IF ~repo[workflow.id].present
         THEN Written(repo, workflow, "workflow not found")
         ELSE Written(repo, workflow, "nil")

\* repo.Update replaces the row, the nodes and the edges of an existing id.
UpdateWorkflow(repo, workflow) ==
    IF validateWorkflowStructure(workflow.nodes, workflow.edges) # "nil"
    THEN Written(repo, NoWorkflow, "cannot update workflow")
    ELSE IF ~repo[workflow.id].present
         THEN Written(repo, workflow, "workflow not found")
         ELSE Written([repo EXCEPT ![workflow.id] = workflow], workflow, "nil")

\* The outcome of ProcessWorkflowInput: also the workflow it returns and how
\* it got it ("none", "unchanged", "updated", "created").
Processed(workflow, path, written) ==
    [workflow |-> workflow, path |-> path, repo |-> written.repo,
     write |-> written.write, err |-> written.err]

\* Lines 106-157; the set of outcomes over the orders the reads can return.
ProcessWorkflowInput(repo, id, inline) ==
    IF ~inline.present
    THEN {Processed(NoWorkflow, "none", Written(repo, NoWorkflow, "nil"))}
    ELSE IF validateWorkflow(inline) # "nil"
    THEN {Processed(NoWorkflow, "none", Written(repo, NoWorkflow, "workflow validation error"))}
    ELSE UNION {
        IF existingWorkflow.present /\ workflowsEqual(existingWorkflow, inline)
        THEN {Processed(existingWorkflow, "unchanged", Written(repo, NoWorkflow, "nil"))}
        ELSE LET path == IF existingWorkflow.present THEN "updated" ELSE "created"
                 written == IF existingWorkflow.present
                            THEN UpdateWorkflow(repo, inline)
                            ELSE CreateWorkflow(repo, inline)
             IN  IF written.err # "nil"
                 THEN {Processed(NoWorkflow, path,
                                 Written(written.repo, written.write,
                                         IF existingWorkflow.present
                                         THEN "failed to update workflow"
                                         ELSE "failed to create workflow"))}
                 ELSE {Processed(reloaded, path,
                                 Written(written.repo, written.write,
                                         IF reloaded.present THEN "nil"
                                         ELSE "workflow not found")) :
                          reloaded \in GetWorkflow(written.repo, id)} :
        existingWorkflow \in GetWorkflow(repo, id)}

\* The outcome of ExecuteWorkflow from line 59 on: the workflow handed to
\* Engine.Execute (NoWorkflow: the engine was not invoked) and the error.
Invoked(engineArg, err) == [engineArg |-> engineArg, err |-> err]

\* Mutant: the workflow is executed without the validation of line 60.
executeUnvalidated(workflow) == Invoked(workflow, "nil")

\* Lines 59-70.  What Engine.Execute returns is the engine specification's
\* subject; here the call is recorded.
executeValidated(workflow) ==
    IF validateWorkflowStructure(workflow.nodes, workflow.edges) # "nil"
    THEN Invoked(NoWorkflow, "invalid workflow structure")
    ELSE Invoked(workflow, "nil")

\* The outcome of ExecuteWorkflow.
Executed(path, repo, write, invoked) ==
    [path |-> path, repo |-> repo, write |-> write,
     engineArg |-> invoked.engineArg, err |-> invoked.err]

\* Lines 40-71; the set of outcomes over the orders the reads can return.
ExecuteWorkflow(repo, engine, id, inline) ==
    IF ~engine
    THEN {Executed("none", repo, NoWorkflow, Invoked(NoWorkflow, "workflow engine not initialized"))}
    ELSE UNION {
        IF processed.err # "nil"
        THEN {Executed(processed.path, processed.repo, processed.write,
                       Invoked(NoWorkflow, "failed to process workflow input"))}
        ELSE IF processed.workflow.present
        THEN {Executed(processed.path, processed.repo, processed.write,
                       executeValidated(processed.workflow))}
        ELSE {Executed("stored", processed.repo, processed.write,
                       IF workflow.present THEN executeValidated(workflow)
                       ELSE Invoked(NoWorkflow, "workflow not found")) :
                 workflow \in GetWorkflow(processed.repo, id)} :
        processed \in ProcessWorkflowInput(repo, id, inline)}

----------------------------------------------------------------------------
(* Inputs of the service specification *)

SvcIDs == {"w1", "w2"}

SvcNames == {"wf", ""}

SvcStart == MkNode("start", NodeTypeStart)
SvcForm == MkNode("form", NodeTypeForm)
SvcEnd == MkNode("end", NodeTypeEnd)
\* The form node with another description.
SvcFormDescribed == MkNodeFull("form", NodeTypeForm, <<"Collect the city">>, NoMeta)

\* Three graphs the validator accepts, two of them alike up to a node's
\* description, and three it rejects (end before start, no end node, an edge
\* to an unknown node).
SvcGraphs ==
    {<<(<<SvcStart, SvcEnd>>), (<<>>)>>,
     <<(<<SvcStart, SvcForm, SvcEnd>>), (<<MkEdge("e1", "start", "form", "")>>)>>,
     <<(<<SvcStart, SvcFormDescribed, SvcEnd>>), (<<MkEdge("e1", "start", "form", "")>>)>>,
     <<(<<SvcEnd, SvcStart>>), (<<>>)>>,
     <<(<<SvcStart, SvcForm>>), (<<>>)>>,
     <<(<<SvcStart, SvcEnd>>), (<<MkEdge("e1", "start", "ghost", "")>>)>>}

SvcWorkflows ==
    {Wf(id, name, g[1], g[2]) : id \in SvcIDs, name \in SvcNames, g \in SvcGraphs}

\* What the tables can hold before the service starts: the migration
\* inserts its rows directly, so nothing has validated them.
SvcSeeded(id) == {Absent} \cup {Wf(id, "wf", g[1], g[2]) : g \in SvcGraphs}

NoServiceCall == [op |-> "none", id |-> "", workflow |-> NoWorkflow, path |-> "none"]

ServiceCall(op, id, workflow, path) ==
    [op |-> op, id |-> id, workflow |-> workflow, path |-> path]

\* The result slot of Registry.Create before a call.
NotCreated == [model |-> MkNode("", ""), node |-> NilNode, err |-> "pending"]

\* The registry main builds before the engine and the service start.
IdleRegistry ==
    /\ rFactories = BuiltinRegistry
    /\ rLog = BuiltinRegistrations
    /\ rOut = NotCreated

IdleService ==
    /\ sRepo = [id \in SvcIDs |-> Absent]
    /\ sEngine = TRUE
    /\ sCall = NoServiceCall
    /\ sEngineArg = NoWorkflow
    /\ sWrite = NoWorkflow
    /\ sErr = "none"

----------------------------------------------------------------------------
(* Inputs of the node-level specification: Node.Execute of each variant,
   called with any NodeInputs *)

\* An email node whose template has a placeholder that is not one of its
\* input variables, one whose variable "message" is a key of several prior
\* outputs, one that asks for a variable no node emits, and one without
\* metadata.
UnitPlaceholder == [t |-> "ph", v |-> "unit"]

EmailUnitNode ==
    MkNodeFull("email", NodeTypeEmail, <<>>,
               [EmailMeta EXCEPT !.inputVariables = <<"city", "temperature">>,
                                 !.subject = <<Str("Alert for "), [t |-> "ph", v |-> "city"]>>,
                                 !.body = <<[t |-> "ph", v |-> "temperature"], UnitPlaceholder>>])

EmailMessageNode ==
    MkNodeFull("email", NodeTypeEmail, <<>>,
               [EmailMeta EXCEPT !.inputVariables = <<"message">>,
                                 !.subject = <<[t |-> "ph", v |-> "message"]>>,
                                 !.body = <<Str("Note: "), [t |-> "ph", v |-> "message"]>>])

EmailHumidityNode ==
    MkNodeFull("email", NodeTypeEmail, <<>>,
               [EmailMeta EXCEPT !.inputVariables = <<"city", "humidity", "pressure">>])

NodeModels ==
    {StartNode, FormNode, WeatherNode, ConditionNode, EndNode,
     EmailNode, EmailUnitNode, EmailMessageNode, EmailHumidityNode,
     MkNode("email", NodeTypeEmail)}

\* The instances the factories build from these models, the condition node
\* also with its routes set.
NodeInstances ==
    {NewNode(m).node : m \in NodeModels}
        \cup {[NewNode(ConditionNode).node EXCEPT !.config.TrueRoute = "email",
                                                  !.config.FalseRoute = "end"]}

\* What a prior form, weather-api and condition output may be; Missing stands
\* for no entry under that id.
Missing == [data |-> EmptyData, status |-> "missing", nextNodeID |-> ""]

DataWithout(data, key) == [k \in DOMAIN data \ {key} |-> data[k]]

FormOutputChoices ==
    {Missing}
        \cup {FormExecute(NewNode(FormNode).node, MkInput(city, 200, OperatorGreaterThan)).outputs :
                    city \in {"Sydney", "sydney", "Nowhereville"}}
        \cup {LET o == FormExecute(NewNode(FormNode).node, DefaultInput).outputs
              IN  [o EXCEPT !.data = DataWithout(o.data, key)] : key \in {"email", "city"}}
        \cup {LET o == FormExecute(NewNode(FormNode).node, DefaultInput).outputs
              IN  [o EXCEPT !.data = Put(Put(o.data, "email", Num(7)), "city", Num(7))]}

WeatherOutputChoices ==
    {Missing}
        \cup {IntegrationExecute(NewNode(WeatherNode).node,
                                 [k \in {NodeIDForm} |->
                                    FormExecute(NewNode(FormNode).node, DefaultInput).outputs],
                                 env).outputs : env \in {EnvOK(255), EnvFail("status")}}
        \cup {MkOutputs(Put(EmptyData, "temperature", Str("hot")), StatusCompleted, "")}

ConditionOutputChoices ==
    {Missing}
        \cup {MkOutputs(Put(EmptyData, "conditionResult", Map([result |-> b])),
                        StatusCompleted, "") : b \in BOOLEAN}
        \cup {MkOutputs(d, StatusCompleted, "") :
                    d \in {EmptyData,
                           Put(EmptyData, "conditionResult", Str("true")),
                           Put(EmptyData, "conditionResult", Map([expression |-> ">"]))}}

PriorOutputsOf(form, weather, condition) ==
    LET ids == {id \in {NodeIDForm, NodeIDWeatherAPI, NodeIDCondition} :
                    CASE id = NodeIDForm -> form.status # "missing"
                      [] id = NodeIDWeatherAPI -> weather.status # "missing"
                      [] OTHER -> condition.status # "missing"}
    IN  [id \in ids |-> CASE id = NodeIDForm -> form
                          [] id = NodeIDWeatherAPI -> weather
                          [] OTHER -> condition]

NodePriorOutputs ==
    {PriorOutputsOf(f, w, c) :
        f \in FormOutputChoices, w \in WeatherOutputChoices, c \in ConditionOutputChoices}

\* The environment matters to the integration node only, the workflow input
\* to the form and condition nodes only.
NodeCalls ==
    {c \in [node : NodeInstances,
            workflowInput : {DefaultInput, MkInput("Nowhereville", 255, OperatorLessThanOrEqual)},
            priorOutputs : NodePriorOutputs,
            env : SampleEnvs] :
        /\ c.node.type # NodeTypeIntegration => c.env = EnvOK(255)
        /\ c.node.type \notin {NodeTypeForm, NodeTypeCondition} => c.workflowInput = DefaultInput}

NoNodeCall ==
    [node |-> NilNode, workflowInput |-> MkInput("", 0, ""),
     priorOutputs |-> [k \in {} |-> ZeroOutputs], env |-> EnvFail("none")]

NotExecuted == [outputs |-> ZeroOutputs, err |-> "pending", node |-> NilNode, effects |-> {}]

IdleNode ==
    /\ nCall = NoNodeCall
    /\ nOut = NotExecuted

----------------------------------------------------------------------------
(* Inputs of the specification of concurrent Engine.Execute calls *)

MaxCalls == 2

\* The sample graph with the condition routes exchanged and another email
\* template: same node ids, different instances.
SwappedNodes ==
    [SampleNodes EXCEPT ![3] = [WeatherNode EXCEPT !.description = <<"Weather in ", "{{city}}">>],
                        ![5] = EmailUnitNode]

SwappedEdges ==
    [SampleEdges EXCEPT ![4] = MkEdge("e4", "condition", "end", "true"),
                        ![5] = MkEdge("e5", "condition", "email", "false")]

SwappedWorkflow == MkWorkflow("w4", "Swapped", SwappedNodes, SwappedEdges)

ConcurrentCalls ==
    {[workflow |-> SampleWorkflow, input |-> DefaultInput, env |-> EnvOK(255)],
     [workflow |-> SampleWorkflow, input |-> MkInput("Melbourne", 255, OperatorGreaterThan),
      env |-> EnvOK(155)],
     [workflow |-> SampleWorkflow, input |-> MkInput("Nowhereville", 200, OperatorLessThan),
      env |-> EnvFail("timeout")],
     [workflow |-> SwappedWorkflow, input |-> DefaultInput, env |-> EnvOK(155)],
     [workflow |-> SwappedWorkflow, input |-> MkInput("Perth", 200, OperatorLessThan),
      env |-> EnvOK(255)]}

IdleLocal ==
    [pc |-> "idle", nodes |-> EmptyMap, edges |-> EmptyMap, current |-> "",
     execution |-> [status |-> "", steps |-> <<>>], prior |-> EmptyMap, ret |-> NotReturned]

IdleConcurrent ==
    /\ xCall = <<>>
    /\ xLocal = <<>>
    /\ xHeap = EmptyMap
    /\ xTurn = 0

----------------------------------------------------------------------------
(* WorkflowRepositoryImpl.Create and Update as transactions on one workflow
   (internal/repository, lines 38-126 and 267-380).  pgx.TxOptions{} leaves
   the isolation level at the server's default, READ COMMITTED: a SELECT
   sees the latest committed row and takes no lock; an UPDATE of a row
   waits for the transaction that holds the row's lock and then writes its
   own values over the latest committed row. *)

MaxTxns == 2

\* The committed state of the workflow: no row, or the row with its nodes and edges.
NoRow == [present |-> FALSE, name |-> "", version |-> 0, nodes |-> <<>>, edges |-> <<>>]

Row(name, version, nodes, edges) ==
    [present |-> TRUE, name |-> name, version |-> version, nodes |-> nodes, edges |-> edges]

\* The *models.Workflow arguments: a name, a Version field (0: none given)
\* and a graph.
RepoArg(name, version, graph) ==
    [name |-> name, version |-> version, nodes |-> graph[1], edges |-> graph[2]]

RepoGraphs ==
    {<<(<<SvcStart, SvcEnd>>), (<<>>)>>,
     <<(<<SvcStart, SvcForm, SvcEnd>>), (<<MkEdge("e1", "start", "form", "")>>)>>}

CreateArgs == {RepoArg("wf", version, g) : version \in {0, 5}, g \in RepoGraphs}

UpdateArgs == {RepoArg(name, 0, g) : name \in {"wf", "renamed"}, g \in RepoGraphs}

\* Create, lines 45-60: version 1 if none is given.
CreatedRow(workflow) ==
    Row(workflow.name, IF workflow.version = 0 THEN 1 ELSE workflow.version,
        workflow.nodes, workflow.edges)

\* Update, lines 286-296 and 312-377: workflow.Version = currentVersion + 1
\* is written over the row, with the new name, nodes and edges.
UpdatedRow(row, workflow, currentVersion) ==
    Row(workflow.name, currentVersion + 1, workflow.nodes, workflow.edges)

IdleTx == [pc |-> "idle", workflow |-> RepoArg("", 0, <<(<<>>), (<<>>)>>), currentVersion |-> 0,
           pending |-> NoRow]

IdleRepository ==
    /\ dRow = NoRow
    /\ dLock = 0
    /\ dTx = <<>>
    /\ dCommits = 0

----------------------------------------------------------------------------
(* workflowsEqual (internal/workflow/workflow.go:189-270) as its caller and
   the two goroutines it starts *)

\* Lines 191-198: the checks made before the goroutines are started.
QuickCheck(wf1, wf2) ==
    /\ wf1.name = wf2.name
    /\ Len(wf1.nodes) = Len(wf2.nodes)
    /\ Len(wf1.edges) = Len(wf2.edges)

\* One iteration of the node loop, lines 213-228: node i of wf2 has a node
\* of wf1 with its id (nodesMap1 keeps the last one) that agrees with it.
NodeMatches(wf1, wf2, i) ==
    /\ \E j \in 1..Len(wf1.nodes) : wf1.nodes[j].id = wf2.nodes[i].id
    /\ LET node1 == LastWithID(wf1.nodes, wf2.nodes[i].id)
       IN  /\ node1.type = wf2.nodes[i].type
           /\ node1.label = wf2.nodes[i].label

\* One iteration of the edge loop, lines 242-260.
EdgeMatches(wf1, wf2, i) ==
    /\ \E j \in 1..Len(wf1.edges) : wf1.edges[j].id = wf2.edges[i].id
    /\ LET edge1 == LastWithID(wf1.edges, wf2.edges[i].id)
       IN  /\ edge1.source = wf2.edges[i].source
           /\ edge1.target = wf2.edges[i].target
           /\ edge1.sourceHandle = wf2.edges[i].sourceHandle

\* make(chan bool, 1), lines 201-202.
ChanCapacity == 1

\* A comparing goroutine: not started, in its loop at index i, or returned;
\* sends counts the values it has put on its channel.
Goroutine(pc, i, sends) == [pc |-> pc, i |-> i, sends |-> sends]

NotStarted == Goroutine("none", 0, 0)

\* The goroutine's next statement is a send: the loop is over (it sends
\* true) or element i does not match (it sends false).
AtSend(g, len, matches) == ~(g.i <= len /\ matches)

\* One step of a comparing goroutine over `len` elements, `matches` telling
\* whether element g.i matches: the goroutine and its channel afterwards.
\* Mutant: the goroutine does not return after sending false.
CompareStepNoReturn(g, chan, len, matches) ==
    IF g.i > len
    THEN [g |-> [g EXCEPT !.pc = "done", !.sends = @ + 1], chan |-> Append(chan, TRUE)]
    ELSE IF matches THEN [g |-> [g EXCEPT !.i = @ + 1], chan |-> chan]
    ELSE [g |-> [g EXCEPT !.i = @ + 1, !.sends = @ + 1], chan |-> Append(chan, FALSE)]

CompareStep(g, chan, len, matches) ==
    IF g.i > len
    THEN [g |-> [g EXCEPT !.pc = "done", !.sends = @ + 1], chan |-> Append(chan, TRUE)]
    ELSE IF matches THEN [g |-> [g EXCEPT !.i = @ + 1], chan |-> chan]
    ELSE [g |-> [g EXCEPT !.pc = "done", !.sends = @ + 1], chan |-> Append(chan, FALSE)]

\* The value returned: not yet, or a boolean.
NotYet == [done |-> FALSE, value |-> FALSE]
Value(b) == [done |-> TRUE, value |-> b]

----------------------------------------------------------------------------
(* Inputs of the workflowsEqual specification *)

EqStart == MkNode("start", NodeTypeStart)
EqForm == MkNode("form", NodeTypeForm)
EqEnd == MkNode("end", NodeTypeEnd)
EqEdges == <<MkEdge("e1", "start", "form", ""), MkEdge("e2", "form", "end", "")>>

\* A workflow and workflows that differ from it in the name, a count, a node
\* id, type, label or description, an edge id or target; and one with two
\* nodes of the same id.
EqualWorkflows ==
    {Wf("w1", "wf", <<EqStart, EqForm, EqEnd>>, EqEdges),
     Wf("w1", "other", <<EqStart, EqForm, EqEnd>>, EqEdges),
     Wf("w1", "wf", <<EqStart, EqEnd>>, EqEdges),
     Wf("w1", "wf", <<EqStart, EqForm, EqEnd>>, SubSeq(EqEdges, 1, 1)),
     Wf("w1", "wf", <<EqStart, MkNode("form2", NodeTypeForm), EqEnd>>, EqEdges),
     Wf("w1", "wf", <<EqStart, MkNode("form", NodeTypeCondition), EqEnd>>, EqEdges),
     Wf("w1", "wf", <<EqStart, EqForm, [EqEnd EXCEPT !.label = <<"Done">>]>>, EqEdges),
     Wf("w1", "wf", <<EqStart, SvcFormDescribed, EqEnd>>, EqEdges),
     Wf("w1", "wf", <<EqStart, EqForm, EqEnd>>,
        <<EqEdges[1], MkEdge("e3", "form", "end", "")>>),
     Wf("w1", "wf", <<EqStart, EqForm, EqEnd>>,
        <<EqEdges[1], MkEdge("e2", "form", "start", "")>>),
     Wf("w1", "wf", <<EqStart, MkNode("form", NodeTypeCondition), EqForm>>, EqEdges)}

EqualCalls == [wf1 : EqualWorkflows, wf2 : EqualWorkflows]

NoEqualCall == [wf1 |-> NoWorkflow, wf2 |-> NoWorkflow]

IdleEqual ==
    /\ qCall = NoEqualCall
    /\ qPc = "idle"
    /\ qNodes = NotStarted
    /\ qEdges = NotStarted
    /\ qNodesChan = <<>>
    /\ qEdgesChan = <<>>
    /\ qNodesEqual = FALSE
    /\ qRet = NotYet

----------------------------------------------------------------------------
(* Specification of the validator as a called function *)

\* The result slot before the call has returned.
Pending == [outputs |-> ZeroOutputs, err |-> "pending"]

IdleCondition ==
    /\ cIn = "none"
    /\ cOut = Pending

IdleValidator ==
    /\ vNodes = <<>>
    /\ vEdges = <<>>
    /\ vErr = "none"

InitValidator ==
    /\ \E g \in VGraphs :
        /\ vNodes = g[1]
        /\ vEdges = g[2]
    /\ vErr = "none"
    /\ IdleCondition
    /\ IdleEngine
    /\ IdleService
    /\ IdleRegistry
    /\ IdleNode
    /\ IdleConcurrent
    /\ IdleRepository
    /\ IdleEqual

Validate ==
    /\ vErr = "none"
    /\ vErr' = validateWorkflowStructure(vNodes, vEdges)
    /\ UNCHANGED <<vNodes, vEdges>>
    /\ UNCHANGED <<conditionVars, engineVars, serviceVars, registryVars, nodeVars, concurrentVars, repositoryVars, equalVars>>

NextValidator == Validate

SpecValidator == InitValidator /\ [][NextValidator]_vars

----------------------------------------------------------------------------
(* Specification of the condition node as a called function *)

InitCondition ==
    /\ cIn \in CInputs
    /\ cOut = Pending
    /\ IdleValidator
    /\ IdleEngine
    /\ IdleService
    /\ IdleRegistry
    /\ IdleNode
    /\ IdleConcurrent
    /\ IdleRepository
    /\ IdleEqual

ConditionNodeExecute ==
    /\ cOut.err = "pending"
    /\ cOut' = ConditionExecute(cIn.config, cIn.workflowInput, cIn.priorOutputs)
    /\ UNCHANGED cIn
    /\ UNCHANGED <<validatorVars, engineVars, serviceVars, registryVars, nodeVars, concurrentVars, repositoryVars, equalVars>>

NextCondition == ConditionNodeExecute

SpecCondition == InitCondition /\ [][NextCondition]_vars

----------------------------------------------------------------------------
(* Specification of the engine: one Execute call, iteration by iteration *)

Init ==
    /\ IdleValidator
    /\ IdleCondition
    /\ IdleEngine
    /\ IdleService
    /\ IdleRegistry
    /\ IdleNode
    /\ IdleConcurrent
    /\ IdleRepository
    /\ IdleEqual

Execute ==
    /\ ePc = "idle"
    /\ \E call \in EngineCalls : EngineStart(call)
    /\ UNCHANGED <<validatorVars, conditionVars, serviceVars, registryVars, nodeVars, concurrentVars, repositoryVars, equalVars>>

\* The loop runs until the call returns; MaxSteps cuts off a traversal that
\* does not.
ExecuteNode ==
    /\ ePc = "running"
    /\ Len(eExecution.steps) < MaxSteps
    /\ EngineIteration
    /\ UNCHANGED <<validatorVars, conditionVars, serviceVars, registryVars, nodeVars, concurrentVars, repositoryVars, equalVars>>

Next == Execute \/ ExecuteNode

Spec == Init /\ [][Next]_vars

\* Engine.Execute as ExecuteWorkflow calls it (workflow.go, lines 59-70):
\* only with a workflow that validateWorkflowStructure accepted.
ExecuteAccepted ==
    /\ ePc = "idle"
    /\ \E call \in EngineCalls :
          /\ validateWorkflowStructure(call.workflow.nodes, call.workflow.edges) = "nil"
          /\ EngineStart(call)
    /\ UNCHANGED <<validatorVars, conditionVars, serviceVars, registryVars, nodeVars, concurrentVars, repositoryVars, equalVars>>

NextAccepted == ExecuteAccepted \/ ExecuteNode

SpecAccepted == Init /\ [][NextAccepted]_vars

----------------------------------------------------------------------------
(* Specification of the service: calls of its methods, one after another *)

InitService ==
    /\ sRepo \in [SvcIDs -> UNION {SvcSeeded(id) : id \in SvcIDs}]
    /\ \A id \in SvcIDs : sRepo[id] \in SvcSeeded(id)
    /\ sEngine \in BOOLEAN
    /\ sCall = NoServiceCall
    /\ sEngineArg = NoWorkflow
    /\ sWrite = NoWorkflow
    /\ sErr = "none"
    /\ IdleValidator
    /\ IdleCondition
    /\ IdleEngine
    /\ IdleRegistry
    /\ IdleNode
    /\ IdleConcurrent
    /\ IdleRepository
    /\ IdleEqual

CallExecuteWorkflow ==
    /\ \E id \in SvcIDs, inline \in SvcWorkflows \cup {NoWorkflow} :
          \E executed \in ExecuteWorkflow(sRepo, sEngine, id, inline) :
              /\ sCall' = ServiceCall("ExecuteWorkflow", id, inline, executed.path)
              /\ sRepo' = executed.repo
              /\ sWrite' = executed.write
              /\ sEngineArg' = executed.engineArg
              /\ sErr' = executed.err
    /\ UNCHANGED sEngine
    /\ UNCHANGED <<validatorVars, conditionVars, engineVars, registryVars, nodeVars, concurrentVars, repositoryVars, equalVars>>

CallCreateWorkflow ==
    /\ \E workflow \in SvcWorkflows :
          LET written == CreateWorkflow(sRepo, workflow)
          IN  /\ sCall' = ServiceCall("CreateWorkflow", workflow.id, workflow, "none")
              /\ sRepo' = written.repo
              /\ sWrite' = written.write
              /\ sErr' = written.err
    /\ sEngineArg' = NoWorkflow
    /\ UNCHANGED sEngine
    /\ UNCHANGED <<validatorVars, conditionVars, engineVars, registryVars, nodeVars, concurrentVars, repositoryVars, equalVars>>

CallUpdateWorkflow ==
    /\ \E workflow \in SvcWorkflows :
          LET written == UpdateWorkflow(sRepo, workflow)
          IN  /\ sCall' = ServiceCall("UpdateWorkflow", workflow.id, workflow, "none")
              /\ sRepo' = written.repo
              /\ sWrite' = written.write
              /\ sErr' = written.err
    /\ sEngineArg' = NoWorkflow
    /\ UNCHANGED sEngine
    /\ UNCHANGED <<validatorVars, conditionVars, engineVars, registryVars, nodeVars, concurrentVars, repositoryVars, equalVars>>

NextService == CallExecuteWorkflow \/ CallCreateWorkflow \/ CallUpdateWorkflow

SpecService == InitService /\ [][NextService]_vars

----------------------------------------------------------------------------
(* Specification of the registry: Register and Create calls on a new one *)

RTypes == {NodeTypeStart, NodeTypeForm, NodeTypeEnd}

RFactories ==
    {MockFactory(NodeTypeStart), MockFactory(NodeTypeEnd), ErrorFactory,
     VariantFactory(NodeTypeIntegration)}

RModels ==
    {MkNode("n1", type) : type \in RTypes \cup {NodeTypeEmail}}
        \cup {MkNodeFull("n2", NodeTypeForm, <<>>, IntegrationMeta)}

InitRegistry ==
    /\ rFactories = NewRegistry
    /\ rLog = <<>>
    /\ rOut = NotCreated
    /\ IdleValidator
    /\ IdleCondition
    /\ IdleEngine
    /\ IdleService
    /\ IdleNode
    /\ IdleConcurrent
    /\ IdleRepository
    /\ IdleEqual

RegistryRegister ==
    /\ Len(rLog) < MaxRegisters
    /\ \E nodeType \in RTypes, factory \in RFactories :
          /\ rFactories' = Register(rFactories, nodeType, factory)
          /\ rLog' = Append(rLog, [nodeType |-> nodeType, factory |-> factory])
    /\ UNCHANGED rOut
    /\ UNCHANGED <<validatorVars, conditionVars, engineVars, serviceVars, nodeVars, concurrentVars, repositoryVars, equalVars>>

RegistryCreateCall ==
    /\ \E nodeModel \in RModels :
          LET created == RegistryCreate(rFactories, nodeModel)
          IN  rOut' = [model |-> nodeModel, node |-> created.node, err |-> created.err]
    /\ UNCHANGED <<rFactories, rLog>>
    /\ UNCHANGED <<validatorVars, conditionVars, engineVars, serviceVars, nodeVars, concurrentVars, repositoryVars, equalVars>>

NextRegistry == RegistryRegister \/ RegistryCreateCall

SpecRegistry == InitRegistry /\ [][NextRegistry]_vars

----------------------------------------------------------------------------
(* Specification of the node variants as called functions *)

InitNode ==
    /\ nCall \in NodeCalls
    /\ nOut = NotExecuted
    /\ IdleValidator
    /\ IdleCondition
    /\ IdleEngine
    /\ IdleService
    /\ IdleRegistry
    /\ IdleConcurrent
    /\ IdleRepository
    /\ IdleEqual

NodeExecuteCall ==
    /\ nOut.err = "pending"
    /\ \E r \in NodeExecute(nCall.node, nCall.workflowInput, nCall.priorOutputs, nCall.env) :
          nOut' = r
    /\ UNCHANGED nCall
    /\ UNCHANGED <<validatorVars, conditionVars, engineVars, serviceVars, registryVars, concurrentVars, repositoryVars, equalVars>>

NextNode == NodeExecuteCall

SpecNode == InitNode /\ [][NextNode]_vars

----------------------------------------------------------------------------
(* Specification of concurrent calls: MaxCalls goroutines call Execute on
   one Engine; a step is the start of a call or one loop iteration of a call *)

InitConcurrent ==
    /\ xCall \in [1..MaxCalls -> ConcurrentCalls]
    /\ xLocal = [k \in 1..MaxCalls |-> IdleLocal]
    /\ xHeap = EmptyMap
    /\ xTurn = 0
    /\ IdleValidator
    /\ IdleCondition
    /\ IdleEngine
    /\ IdleService
    /\ IdleRegistry
    /\ IdleNode
    /\ IdleRepository
    /\ IdleEqual

ConcurrentExecute ==
    /\ \E k \in 1..MaxCalls :
          /\ xLocal[k].pc = "idle"
          /\ LET L == StartOf(rFactories, xCall[k])
                 pointers == Pointers(k, L.nodes)
             IN  /\ xLocal' = [xLocal EXCEPT ![k] = [L EXCEPT !.nodes = pointers]]
                 /\ xHeap' = Store(xHeap, pointers, L.nodes)
          /\ xTurn' = k
    /\ UNCHANGED xCall
    /\ UNCHANGED <<validatorVars, conditionVars, engineVars, serviceVars, registryVars, nodeVars, repositoryVars, equalVars>>

ConcurrentExecuteNode ==
    /\ \E k \in 1..MaxCalls :
          /\ xLocal[k].pc = "running"
          /\ Len(xLocal[k].execution.steps) < MaxSteps
          /\ \E L \in IterationOf([xLocal[k] EXCEPT !.nodes = Deref(xHeap, xLocal[k].nodes)],
                                   xCall[k]) :
                /\ xLocal' = [xLocal EXCEPT ![k] = [L EXCEPT !.nodes = xLocal[k].nodes]]
                /\ xHeap' = Store(xHeap, xLocal[k].nodes, L.nodes)
          /\ xTurn' = k
    /\ UNCHANGED xCall
    /\ UNCHANGED <<validatorVars, conditionVars, engineVars, serviceVars, registryVars, nodeVars, repositoryVars, equalVars>>

NextConcurrent == ConcurrentExecute \/ ConcurrentExecuteNode

SpecConcurrent == InitConcurrent /\ [][NextConcurrent]_vars

----------------------------------------------------------------------------
(* Specification of the repository: one Create, then MaxTxns Update calls
   whose transactions may overlap *)

InitRepository ==
    /\ dRow = NoRow
    /\ dLock = 0
    /\ dTx \in [1..MaxTxns -> {[IdleTx EXCEPT !.workflow = w] : w \in UpdateArgs}]
    /\ dCommits = 0
    /\ IdleValidator
    /\ IdleCondition
    /\ IdleEngine
    /\ IdleService
    /\ IdleRegistry
    /\ IdleNode
    /\ IdleConcurrent
    /\ IdleEqual

\* Create: the INSERT fails on an existing id.
RepoCreate ==
    /\ ~dRow.present
    /\ \E workflow \in CreateArgs : dRow' = CreatedRow(workflow)
    /\ UNCHANGED <<dLock, dTx, dCommits>>
    /\ UNCHANGED <<validatorVars, conditionVars, engineVars, serviceVars, registryVars,
                   nodeVars, concurrentVars, equalVars>>

\* Update, lines 275-284: SELECT version.  Without a row the call returns
\* ErrWorkflowNotFound.
UpdateSelectVersion ==
    /\ \E t \in 1..MaxTxns :
          /\ dTx[t].pc = "idle"
          /\ dTx' = [dTx EXCEPT ![t] =
                        IF dRow.present
                        THEN [@ EXCEPT !.pc = "selected", !.currentVersion = dRow.version]
                        ELSE [@ EXCEPT !.pc = "failed"]]
    /\ UNCHANGED <<dRow, dLock, dCommits>>
    /\ UNCHANGED <<validatorVars, conditionVars, engineVars, serviceVars, registryVars,
                   nodeVars, concurrentVars, equalVars>>

\* Lines 286-377: the UPDATE takes the row lock (it waits while another
\* transaction holds it), then the nodes and edges are deleted and inserted.
UpdateWrite ==
    /\ \E t \in 1..MaxTxns :
          /\ dTx[t].pc = "selected"
          /\ dLock = 0
          /\ dLock' = t
          /\ dTx' = [dTx EXCEPT ![t] =
                        [@ EXCEPT !.pc = "written",
                                  !.pending = UpdatedRow(dRow, dTx[t].workflow,
                                                         dTx[t].currentVersion)]]
    /\ UNCHANGED <<dRow, dCommits>>
    /\ UNCHANGED <<validatorVars, conditionVars, engineVars, serviceVars, registryVars,
                   nodeVars, concurrentVars, equalVars>>

\* BeginTxFunc commits when the function returns nil.
UpdateCommit ==
    /\ \E t \in 1..MaxTxns :
          /\ dTx[t].pc = "written"
          /\ dRow' = dTx[t].pending
          /\ dLock' = 0
          /\ dTx' = [dTx EXCEPT ![t] = [@ EXCEPT !.pc = "committed"]]
    /\ dCommits' = dCommits + 1
    /\ UNCHANGED <<validatorVars, conditionVars, engineVars, serviceVars, registryVars,
                   nodeVars, concurrentVars, equalVars>>

\* BeginTxFunc rolls back when a statement fails (a constraint violation of
\* an inserted row, a cancelled context).
UpdateRollback ==
    /\ \E t \in 1..MaxTxns :
          /\ dTx[t].pc = "written"
          /\ dLock' = 0
          /\ dTx' = [dTx EXCEPT ![t] = [@ EXCEPT !.pc = "failed", !.pending = NoRow]]
    /\ UNCHANGED <<dRow, dCommits>>
    /\ UNCHANGED <<validatorVars, conditionVars, engineVars, serviceVars, registryVars,
                   nodeVars, concurrentVars, equalVars>>

NextRepository ==
    RepoCreate \/ UpdateSelectVersion \/ UpdateWrite \/ UpdateCommit \/ UpdateRollback

SpecRepository == InitRepository /\ [][NextRepository]_vars

----------------------------------------------------------------------------
(* Specification of workflowsEqual: one call, its goroutines interleaved *)

InitEqual ==
    /\ qCall \in EqualCalls
    /\ qPc = "idle"
    /\ qNodes = NotStarted
    /\ qEdges = NotStarted
    /\ qNodesChan = <<>>
    /\ qEdgesChan = <<>>
    /\ qNodesEqual = FALSE
    /\ qRet = NotYet
    /\ IdleValidator
    /\ IdleCondition
    /\ IdleEngine
    /\ IdleService
    /\ IdleRegistry
    /\ IdleNode
    /\ IdleConcurrent
    /\ IdleRepository

otherThanEqual ==
    <<validatorVars, conditionVars, engineVars, serviceVars, registryVars, nodeVars,
      concurrentVars, repositoryVars>>

\* Lines 191-263: the quick checks, then the channels and the go statements.
EqualStart ==
    /\ qPc = "idle"
    /\ IF QuickCheck(qCall.wf1, qCall.wf2)
       THEN /\ qPc' = "recvNodes"
            /\ qNodes' = Goroutine("running", 1, 0)
            /\ qEdges' = Goroutine("running", 1, 0)
            /\ UNCHANGED qRet
       ELSE /\ qPc' = "returned"
            /\ qRet' = Value(FALSE)
            /\ UNCHANGED <<qNodes, qEdges>>
    /\ UNCHANGED <<qCall, qNodesChan, qEdgesChan, qNodesEqual>>
    /\ UNCHANGED otherThanEqual

\* The goroutine of lines 205-231 takes a step; a send waits for room in the
\* channel's buffer.
NodesGoroutineStep ==
    /\ qNodes.pc = "running"
    /\ LET len == Len(qCall.wf2.nodes)
           matches == qNodes.i <= len /\ NodeMatches(qCall.wf1, qCall.wf2, qNodes.i)
           after == CompareStep(qNodes, qNodesChan, len, matches)
       IN  /\ AtSend(qNodes, len, matches) => Len(qNodesChan) < ChanCapacity
           /\ qNodes' = after.g
           /\ qNodesChan' = after.chan
    /\ UNCHANGED <<qCall, qPc, qEdges, qEdgesChan, qNodesEqual, qRet>>
    /\ UNCHANGED otherThanEqual

\* The goroutine of lines 234-263 takes a step.
EdgesGoroutineStep ==
    /\ qEdges.pc = "running"
    /\ LET len == Len(qCall.wf2.edges)
           matches == qEdges.i <= len /\ EdgeMatches(qCall.wf1, qCall.wf2, qEdges.i)
           after == CompareStep(qEdges, qEdgesChan, len, matches)
       IN  /\ AtSend(qEdges, len, matches) => Len(qEdgesChan) < ChanCapacity
           /\ qEdges' = after.g
           /\ qEdgesChan' = after.chan
    /\ UNCHANGED <<qCall, qPc, qNodes, qNodesChan, qNodesEqual, qRet>>
    /\ UNCHANGED otherThanEqual

\* Line 266: nodesEqual := <-nodesChan.
ReceiveNodes ==
    /\ qPc = "recvNodes"
    /\ qNodesChan # <<>>
    /\ qNodesEqual' = Head(qNodesChan)
    /\ qNodesChan' = Tail(qNodesChan)
    /\ qPc' = "recvEdges"
    /\ UNCHANGED <<qCall, qNodes, qEdges, qEdgesChan, qRet>>
    /\ UNCHANGED otherThanEqual

\* Lines 267-269: edgesEqual := <-edgesChan; return nodesEqual && edgesEqual.
ReceiveEdges ==
    /\ qPc = "recvEdges"
    /\ qEdgesChan # <<>>
    /\ qRet' = Value(qNodesEqual /\ Head(qEdgesChan))
    /\ qEdgesChan' = Tail(qEdgesChan)
    /\ qPc' = "returned"
    /\ UNCHANGED <<qCall, qNodes, qEdges, qNodesChan, qNodesEqual>>
    /\ UNCHANGED otherThanEqual

NextEqual ==
    EqualStart \/ NodesGoroutineStep \/ EdgesGoroutineStep \/ ReceiveNodes \/ ReceiveEdges

SpecEqual == InitEqual /\ [][NextEqual]_vars

\* The Go scheduler runs every goroutine that can take a step.
SpecEqualFair ==
    /\ SpecEqual
    /\ WF_vars(EqualStart)
    /\ WF_vars(NodesGoroutineStep)
    /\ WF_vars(EdgesGoroutineStep)
    /\ WF_vars(ReceiveNodes)
    /\ WF_vars(ReceiveEdges)

----------------------------------------------------------------------------
(* Properties of validateWorkflowStructure *)

CountType(nodes, type) == Cardinality({i \in 1..Len(nodes) : nodes[i].type = type})

\* The single violations of the structural invariants, by error kind.
Violations(nodes, edges) ==
    {k \in {"ErrMissingStartNode", "ErrMissingEndNode", "ErrStartNodePosition",
            "ErrEndNodePosition", "ErrDuplicateNodeID", "ErrEmptyNodeID",
            "ErrInvalidNodeType", "ErrDuplicateEdgeID", "ErrEmptyEdgeID",
            "ErrEdgeToUnknownNode"} :
        CASE k = "ErrMissingStartNode" -> CountType(nodes, NodeTypeStart) = 0
          [] k = "ErrMissingEndNode" -> CountType(nodes, NodeTypeEnd) = 0
          [] k = "ErrStartNodePosition" ->
                CountType(nodes, NodeTypeStart) = 1 /\ nodes[1].type # NodeTypeStart
          [] k = "ErrEndNodePosition" ->
                CountType(nodes, NodeTypeEnd) = 1 /\ nodes[Len(nodes)].type # NodeTypeEnd
          [] k = "ErrDuplicateNodeID" ->
                \E i, j \in 1..Len(nodes) : i # j /\ nodes[i].id = nodes[j].id
          [] k = "ErrEmptyNodeID" -> \E i \in 1..Len(nodes) : nodes[i].id = ""
          [] k = "ErrInvalidNodeType" -> \E i \in 1..Len(nodes) : nodes[i].type = ""
          [] k = "ErrDuplicateEdgeID" ->
                \E i, j \in 1..Len(edges) : i # j /\ edges[i].id = edges[j].id
          [] k = "ErrEmptyEdgeID" -> \E i \in 1..Len(edges) : edges[i].id = ""
          [] k = "ErrEdgeToUnknownNode" ->
                \E i \in 1..Len(edges) :
                    \/ edges[i].source \notin NodeIDSet(nodes)
                    \/ edges[i].target \notin NodeIDSet(nodes)}

\* What the ten listed violations leave open: a non-empty node list with at
\* most one start and one end node, and no edge with an empty end.
InViolationScope(nodes, edges) ==
    /\ Len(nodes) > 0
    /\ CountType(nodes, NodeTypeStart) <= 1
    /\ CountType(nodes, NodeTypeEnd) <= 1
    /\ \A i \in 1..Len(edges) : edges[i].source # "" /\ edges[i].target # ""

C7_AcceptedHasExactlyOneEndLast ==
    vErr = "nil" =>
        /\ CountType(vNodes, NodeTypeEnd) = 1
        /\ vNodes[Len(vNodes)].type = NodeTypeEnd

\* C8: every accepted node list has exactly one start-type node, and it is at
\* index 0.
C8_AcceptedHasExactlyOneStartFirst ==
    vErr = "nil" =>
        /\ CountType(vNodes, NodeTypeStart) = 1
        /\ vNodes[1].type = NodeTypeStart

C8_Witness ==
    /\ vErr = "nil"
    /\ Len(vNodes) = 3
    /\ vNodes[1].type = NodeTypeStart

----------------------------------------------------------------------------
(* Properties of condition.Node.Execute *)

\* The comparison an operator tag stands for, on the sign of sample - threshold.
Holds(operator, sample, threshold) ==
    LET d == sample - threshold
    IN  \/ operator = OperatorGreaterThan /\ d > 0
        \/ operator = OperatorLessThan /\ d < 0
        \/ operator = OperatorEquals /\ d = 0
        \/ operator = OperatorGreaterThanOrEqual /\ ~(d < 0)
        \/ operator = OperatorLessThanOrEqual /\ ~(d > 0)

CSampleIsNumeric ==
    /\ NodeIDWeatherAPI \in DOMAIN cIn.priorOutputs
    /\ "temperature" \in DOMAIN cIn.priorOutputs[NodeIDWeatherAPI].data
    /\ cIn.priorOutputs[NodeIDWeatherAPI].data["temperature"].t = "num"

\* C10: with a numeric sample and one of the five operators the node is
\* Completed, reports result = (sample op threshold) and sets nextNodeId to
\* the true-route or the false-route accordingly; with an absent or
\* non-numeric sample it is Failed, emits no condition result and leaves
\* nextNodeId empty.
C10_ConditionResultAndRoute ==
    cOut.err # "pending" =>
        IF CSampleIsNumeric
        THEN cIn.workflowInput.operator \in ValidOperators =>
                LET expected == Holds(cIn.workflowInput.operator,
                                      cIn.priorOutputs[NodeIDWeatherAPI].data["temperature"].v,
                                      cIn.workflowInput.threshold)
                IN  /\ cOut.err = "nil"
                    /\ cOut.outputs.status = StatusCompleted
                    /\ "conditionResult" \in DOMAIN cOut.outputs.data
                    /\ cOut.outputs.data["conditionResult"].v.result = expected
                    /\ cOut.outputs.nextNodeID =
                          (IF expected THEN cIn.config.TrueRoute ELSE cIn.config.FalseRoute)
        ELSE /\ cOut.err # "nil"
             /\ cOut.outputs.status = StatusFailed
             /\ "conditionResult" \notin DOMAIN cOut.outputs.data
             /\ cOut.outputs.nextNodeID = ""

C10_Witness ==
    /\ cOut.err = "nil"
    /\ cIn.workflowInput.operator = OperatorGreaterThan
    /\ cIn.workflowInput.threshold = 200
    /\ cIn.priorOutputs[NodeIDWeatherAPI].data["temperature"].v = 255
    /\ cIn.config.TrueRoute = "email"
    /\ cIn.config.FalseRoute = "end"
    /\ cOut.outputs.nextNodeID = "email"
    /\ cOut.outputs.data["conditionResult"].v.result = TRUE

----------------------------------------------------------------------------
(* Properties of the workflow service *)

Accepted(workflow) == validateWorkflowStructure(workflow.nodes, workflow.edges) = "nil"

\* C1: the workflow a service call hands to Engine.Execute passes
\* validateWorkflowStructure, whichever way ExecuteWorkflow got it (loaded
\* from storage, supplied inline, returned unchanged by
\* ProcessWorkflowInput); only ExecuteWorkflow invokes the engine; the
\* workflow a call hands to a repository write passes
\* validateWorkflowStructure; and CreateWorkflow / UpdateWorkflow with a
\* workflow that fails it invoke no write and return an error.
C1_NoEngineOrWriteOnInvalidGraph ==
    /\ sEngineArg.present =>
          /\ Accepted(sEngineArg)
          /\ sCall.op = "ExecuteWorkflow"
          /\ sErr = "nil"
    /\ sWrite.present => Accepted(sWrite)
    /\ (sCall.op \in {"CreateWorkflow", "UpdateWorkflow"} /\ ~Accepted(sCall.workflow)) =>
          /\ ~sWrite.present
          /\ sErr \in {"cannot create workflow", "cannot update workflow"}

C1_Witness ==
    /\ sCall.op = "ExecuteWorkflow"
    /\ sCall.path = "unchanged"
    /\ Accepted(sCall.workflow)
    /\ sErr = "invalid workflow structure"
    /\ ~sEngineArg.present
    /\ ~sWrite.present

----------------------------------------------------------------------------
(* Properties of Engine.Execute *)

Returned == ePc = "returned"

Steps == eExecution.steps

StepNodeIDs == [i \in 1..Len(Steps) |-> Steps[i].nodeID]

WfNodes == eCall.workflow.nodes
WfEdges == eCall.workflow.edges

\* Some node definition cannot be instantiated: its type has no factory, or
\* it is an integration node without an API endpoint.
SomeNodeNotCreatable ==
    \E i \in 1..Len(WfNodes) :
        \/ WfNodes[i].type \notin DOMAIN BuiltinRegistry
        \/ WfNodes[i].type = NodeTypeIntegration /\ ~WfNodes[i].meta.apiEndpoint

\* C2: Execute returns a record or an error, never both and never neither.
\* A node that cannot be instantiated and a missing start node give an error
\* and no record; every error comes without a record; a node that failed
\* gives a record with status Failed and no error.
C2_RecordXorError ==
    Returned =>
        /\ eRet.record.present <=> eRet.err = "nil"
        /\ eRet.err \in {"nil", "failed to create node", "no start node found in workflow",
                         "node not found in workflow", "node has no outgoing edges"}
        /\ SomeNodeNotCreatable =>
              eRet = [record |-> NilRecord, err |-> "failed to create node"]
        /\ (~SomeNodeNotCreatable /\ ~HasType(WfNodes, NodeTypeStart)) =>
              eRet = [record |-> NilRecord, err |-> "no start node found in workflow"]
        /\ (\E k \in DOMAIN ePrior : ePrior[k].status = StatusFailed) =>
              /\ eRet.err = "nil"
              /\ eRet.record.present
              /\ eRet.record.status = StatusFailed
              /\ eRet.record.steps = Steps

C2_Witness ==
    /\ Returned
    /\ eRet.err = "nil"
    /\ eRet.record.present
    /\ eRet.record.status = StatusFailed
    /\ Len(eRet.record.steps) = 2
    /\ eRet.record.steps[2].nodeType = NodeTypeCondition

\* C3: a failed step is the last step, no node runs after it, the call has
\* returned a record with status Failed, and the step carries the node's
\* error message.  The sample graph with the weather endpoint answering a
\* non-200 status gives exactly the steps start, form, weather-api.
C3_FailFast ==
    /\ \A i \in 1..Len(Steps) :
          Steps[i].status = StatusFailed =>
              /\ i = Len(Steps)
              /\ Returned
              /\ eRet.err = "nil"
              /\ eRet.record.present
              /\ eRet.record.status = StatusFailed
              /\ eRet.record.steps = Steps
              /\ Steps[i].error = ePrior[Steps[i].nodeID].data["error"]
              /\ Steps[i].error # Str("")
    /\ (Returned /\ eCall.workflow = SampleWorkflow /\ eCall.env.kind = "status"
            /\ eCall.input.city = "Sydney") =>
          /\ eRet.record.present
          /\ eRet.record.status = StatusFailed
          /\ StepNodeIDs = <<"start", "form", "weather-api">>

C3_Witness ==
    /\ Returned
    /\ eCall.workflow = SampleWorkflow
    /\ eCall.env.kind = "status"
    /\ eCall.input.city = "Sydney"
    /\ eRet.record.status = StatusFailed
    /\ Len(eRet.record.steps) = 3
    /\ eRet.record.steps[3].nodeType = NodeTypeIntegration
    /\ eRet.record.steps[3].status = StatusFailed

\* The end-to-end scenario: the sample graph, city Sydney, the weather
\* endpoint answering 25.5, threshold 20, operator greater_than.
IsScenario ==
    /\ eCall.workflow = SampleWorkflow
    /\ eCall.env = EnvOK(255)
    /\ eCall.input = MkInput("Sydney", 200, OperatorGreaterThan)

\* C4 as stated: the scenario yields status Completed and exactly 5 steps.
C4_ScenarioHasFiveSteps ==
    (Returned /\ IsScenario) =>
        /\ eRet.record.present
        /\ eRet.record.status = StatusCompleted
        /\ Len(eRet.record.steps) = 5

\* C4 as amended: the scenario yields status Completed and exactly the 6
\* steps start, form, weather-api, condition, email, end, in that order.
C4_ScenarioHasSixSteps ==
    (Returned /\ IsScenario) =>
        /\ eRet.err = "nil"
        /\ eRet.record.present
        /\ eRet.record.status = StatusCompleted
        /\ [i \in 1..Len(eRet.record.steps) |-> eRet.record.steps[i].nodeID]
              = <<"start", "form", "weather-api", "condition", "email", "end">>
        /\ \A i \in 1..Len(eRet.record.steps) :
              /\ eRet.record.steps[i].stepNumber = i
              /\ eRet.record.steps[i].status = StatusCompleted

C4_Witness ==
    /\ Returned
    /\ IsScenario
    /\ eRet.record.status = StatusCompleted
    /\ Len(eRet.record.steps) = 6
    /\ eRet.record.steps[5].nodeType = NodeTypeEmail

\* The node ids reachable from the ids in S over one or more edges.
RECURSIVE ReachableFrom(_, _, _)
ReachableFrom(edges, S, n) ==
    LET step == {edges[i].target : i \in {j \in 1..Len(edges) : edges[j].source \in S}}
    IN  IF n = 0 THEN {}
        ELSE step \cup ReachableFrom(edges, step, n - 1)

Acyclic(nodes, edges) ==
    \A i \in 1..Len(nodes) : nodes[i].id \notin ReachableFrom(edges, {nodes[i].id}, Len(edges))

NoDuplicateRoutes(edges) ==
    \A i, j \in 1..Len(edges) :
        (edges[i].source = edges[j].source /\ edges[i].sourceHandle = edges[j].sourceHandle)
            => i = j

Started == ePc # "idle"

AllStepsCompleted == \A i \in 1..Len(Steps) : Steps[i].status = StatusCompleted

\* C5 as stated: on an accepted graph without duplicate (source, routeKey)
\* edges, with every node completing, at most len(nodes) steps are executed.
C5_AtMostLenNodesSteps ==
    (/\ Started
     /\ validateWorkflowStructure(WfNodes, WfEdges) = "nil"
     /\ NoDuplicateRoutes(WfEdges)
     /\ AllStepsCompleted)
        => Len(Steps) <= Len(WfNodes)

\* C5 as amended: on an accepted graph without duplicate (source, routeKey)
\* edges and without a cycle among its edges, with every node completing, at
\* most len(nodes) steps are executed, and the call has ended once len(nodes)
\* steps are executed.
C5_AcyclicAtMostLenNodesSteps ==
    (/\ Started
     /\ validateWorkflowStructure(WfNodes, WfEdges) = "nil"
     /\ NoDuplicateRoutes(WfEdges)
     /\ Acyclic(WfNodes, WfEdges)
     /\ AllStepsCompleted)
        => /\ Len(Steps) <= Len(WfNodes)
           /\ Len(Steps) = Len(WfNodes) => Returned

C5_Witness ==
    /\ Returned
    /\ validateWorkflowStructure(WfNodes, WfEdges) = "nil"
    /\ NoDuplicateRoutes(WfEdges)
    /\ Acyclic(WfNodes, WfEdges)
    /\ AllStepsCompleted
    /\ Len(WfEdges) = 5
    /\ Len(Steps) = Len(WfNodes)
    /\ eRet.record.status = StatusCompleted

\* The last executed node completed, is not an end node, set no explicit
\* nextNodeId and has no unconditional route; a condition node moreover has
\* no route under the key of its result, nor under the key "false" that
\* findNextNode derives when the output has no boolean "conditionMet".
DeadEnd ==
    /\ Len(Steps) > 0
    /\ LET last == Steps[Len(Steps)]
           out == ePrior[last.nodeID]
       IN  /\ last.status = StatusCompleted
           /\ last.nodeType # NodeTypeEnd
           /\ out.nextNodeID = ""
           /\ ~HasRoute(eEdges, last.nodeID, "")
           /\ last.nodeType = NodeTypeCondition =>
                 /\ ~HasRoute(eEdges, last.nodeID, "false")
                 /\ out.data["conditionResult"].v.result => ~HasRoute(eEdges, last.nodeID, "true")

----------------------------------------------------------------------------
(* Properties of the registry and of node instantiation *)

\* C11: when some node definition of the workflow has a type without a
\* factory, or a factory that fails, Execute returns the instantiation error
\* and no record, no node has been executed, also when that node lies on no
\* route; Registry.Create returns a nil node with the error; and the
\* registry is the same throughout the call.
C11_InstantiationFailureIsHardError ==
    /\ rFactories = BuiltinRegistry
    /\ (Started /\ SomeNodeNotCreatable) =>
          /\ Returned
          /\ eRet = [record |-> NilRecord, err |-> "failed to create node"]
          /\ Steps = <<>>
          /\ ePrior = EmptyMap
    /\ \A i \in 1..Len(WfNodes) :
          LET created == RegistryCreate(rFactories, WfNodes[i])
          IN  /\ WfNodes[i].type \notin DOMAIN rFactories =>
                    /\ created.node = NilNode
                    /\ created.err = "no factory registered for node type"
              /\ (WfNodes[i].type = NodeTypeIntegration /\ ~WfNodes[i].meta.apiEndpoint) =>
                    /\ created.node = NilNode
                    /\ created.err = "missing API endpoint"

C11_Witness ==
    /\ Returned
    /\ eRet = [record |-> NilRecord, err |-> "failed to create node"]
    /\ Len(WfNodes) = 3
    /\ WfNodes[2].type = NodeTypeIntegration
    /\ ~WfNodes[2].meta.apiEndpoint
    /\ Len(WfEdges) = 1
    /\ WfEdges[1].source = "start"
    /\ WfEdges[1].target = "end"
    /\ Steps = <<>>

RegisteredTypes == {rLog[i].nodeType : i \in 1..Len(rLog)}

\* The factory of the most recent Register call for the type.
LastRegistered(nodeType) ==
    rLog[CHOOSE i \in 1..Len(rLog) :
            /\ rLog[i].nodeType = nodeType
            /\ \A j \in (i + 1)..Len(rLog) : rLog[j].nodeType # nodeType].factory

\* C12: after any sequence of Register calls the registry holds one factory
\* per registered type, the one of the most recent Register for that type,
\* so registering a type again leaves the number of entries as it was; and
\* Create for a type returns what that latest factory returns.
C12_RegisterLastWriteWins ==
    /\ [](/\ DOMAIN rFactories = RegisteredTypes
          /\ \A nodeType \in RegisteredTypes : rFactories[nodeType] = LastRegistered(nodeType))
    /\ [][/\ (rLog' # rLog /\ rLog'[Len(rLog')].nodeType \in RegisteredTypes) =>
                Cardinality(DOMAIN rFactories') = Cardinality(DOMAIN rFactories)
          /\ (rOut' # rOut /\ rOut'.model.type \in RegisteredTypes) =>
                LET factory == LastRegistered(rOut'.model.type)
                IN  /\ [node |-> rOut'.node, err |-> rOut'.err]
                          = ApplyFactory(factory, rOut'.model)
                    /\ factory.kind = "mock" =>
                          /\ rOut'.err = "nil"
                          /\ rOut'.node.type = factory.nodeType
                    /\ factory.kind = "error" =>
                          /\ rOut'.err = "factory error"
                          /\ rOut'.node = NilNode
         ]_vars

C12_Witness ==
    /\ Len(rLog) = 3
    /\ rLog[1] = [nodeType |-> NodeTypeStart, factory |-> MockFactory(NodeTypeStart)]
    /\ rLog[3] = [nodeType |-> NodeTypeStart, factory |-> MockFactory(NodeTypeEnd)]
    /\ Cardinality(DOMAIN rFactories) = 2
    /\ rOut.model.type = NodeTypeStart
    /\ rOut.err = "nil"
    /\ rOut.node.type = NodeTypeEnd

----------------------------------------------------------------------------
(* Claims about Node.Execute of the variants *)

NodeReturned == nOut.err # "pending"

\* A text that is not the empty string: a literal, or a formatted text that
\* starts with a literal.
NonEmptyText(text) ==
    IF text.t = "str" THEN text.v # "" ELSE Len(text.v) > 0 /\ text.v[1] # ""

HasErrorMessage(data) == IsString(data, "error") /\ NonEmptyText(data["error"])

\* C13: Execute of every variant, on every input, returns status Completed
\* or Failed; the status is Failed exactly when the returned error is non-nil
\* and exactly when data["error"] holds a non-empty message; start, form and
\* end nodes never fail.
C13_FailedIffErrorIffErrorData ==
    NodeReturned =>
        /\ nOut.outputs.status \in {StatusCompleted, StatusFailed}
        /\ (nOut.outputs.status = StatusFailed) <=> (nOut.err # "nil")
        /\ (nOut.outputs.status = StatusFailed) <=> HasErrorMessage(nOut.outputs.data)
        /\ nCall.node.type \in {NodeTypeStart, NodeTypeForm, NodeTypeEnd}
                => nOut.outputs.status = StatusCompleted

C13_Witness ==
    /\ NodeReturned
    /\ nCall.node.type = NodeTypeEmail
    /\ nOut.outputs.status = StatusFailed
    /\ nOut.err = "missing required variable"
    /\ HasErrorMessage(nOut.outputs.data)

----------------------------------------------------------------------------
(* Claims about the integration node inside Engine.Execute *)

IntegrationSteps == {i \in 1..Len(Steps) : Steps[i].nodeType = NodeTypeIntegration}

\* The city the integration step i reads: the "city" string of the output
\* an earlier step stored under the form node's id.
FormRanBefore(i) ==
    \E j \in 1..(i - 1) : Steps[j].nodeID = NodeIDForm /\ IsString(Steps[j].output, "city")

CityRead(i) ==
    Steps[CHOOSE j \in 1..(i - 1) :
            Steps[j].nodeID = NodeIDForm /\ IsString(Steps[j].output, "city")].output["city"].v

OptionsOf(i) == eNodes[Steps[i].nodeID].config.Options

\* C14: an integration step is Completed only when the city of the prior form
\* output is, case-sensitively, an entry of the options table and the fetch
\* returns HTTP 200 with a numeric temperature.  A city outside the table
\* fails with "City not found" and without a fetch; a non-200 status, a
\* malformed or non-numeric body, a network error, a timeout and a
\* cancellation fail with the client's reason in the error text.  Every such
\* failure is returned by Engine.Execute as a Failed record whose last step
\* is the failed one, with a nil error.
C14_IntegrationFailuresAreFailedRecords ==
    Returned =>
        \A i \in IntegrationSteps :
            /\ Steps[i].status \in {StatusCompleted, StatusFailed}
            /\ (Steps[i].status = StatusCompleted)
                    <=> /\ FormRanBefore(i)
                        /\ CityRead(i) \in OptionsOf(i)
                        /\ eCall.env.kind = "ok"
            /\ Steps[i].status = StatusFailed =>
                    /\ eRet.err = "nil"
                    /\ eRet.record.present
                    /\ eRet.record.status = StatusFailed
                    /\ i = Len(Steps)
                    /\ NonEmptyText(Steps[i].error)
            /\ (FormRanBefore(i) /\ CityRead(i) \notin OptionsOf(i)) =>
                    /\ Steps[i].error = Fmt(<<"City not found: ", CityRead(i)>>)
                    /\ "fetch" \notin eEffects
            /\ (FormRanBefore(i) /\ CityRead(i) \in OptionsOf(i) /\ eCall.env.kind # "ok") =>
                    /\ Steps[i].error = Fmt(<<"Weather API error: ", GetWeather(eCall.env).err>>)
                    /\ GetWeather(eCall.env).err # "nil"
                    /\ "fetch" \in eEffects

C14_Witness ==
    /\ Returned
    /\ eCall.env.kind = "timeout"
    /\ eCall.input.city = "Sydney"
    /\ IntegrationSteps # {}
    /\ Steps[Len(Steps)].nodeType = NodeTypeIntegration
    /\ Steps[Len(Steps)].status = StatusFailed
    /\ eRet.record.status = StatusFailed
    /\ eRet.err = "nil"

----------------------------------------------------------------------------
(* Claims about the email node *)

EmailReturned == NodeReturned /\ nCall.node.type = NodeTypeEmail

\* The condition result the email node reads from the prior condition output.
ConditionResultIs(priorOutputs, b) ==
    /\ NodeIDCondition \in DOMAIN priorOutputs
    /\ IsMap(priorOutputs[NodeIDCondition].data, "conditionResult")
    /\ "result" \in DOMAIN priorOutputs[NodeIDCondition].data["conditionResult"].v
    /\ priorOutputs[NodeIDCondition].data["conditionResult"].v.result = b

HasRecipient(priorOutputs) ==
    NodeIDForm \in DOMAIN priorOutputs /\ IsString(priorOutputs[NodeIDForm].data, "email")

ConfiguredVariables == {nCall.node.config.InputVariables[i] :
                            i \in 1..Len(nCall.node.config.InputVariables)}

\* The prior outputs whose data has the key.
Holders(priorOutputs, key) == {id \in DOMAIN priorOutputs : key \in DOMAIN priorOutputs[id].data}

MissingVariables == {v \in ConfiguredVariables : Holders(nCall.priorOutputs, v) = {}}

SameToken(a, b) == a.t = b.t /\ a.v = b.v

\* rendered is template with each placeholder of a gathered variable replaced
\* by the value an output of `from` holds under that key, and everything
\* else, placeholders of other names included, left as it is.
RenderedFrom(template, rendered, from) ==
    /\ Len(rendered) = Len(template)
    /\ \A i \in 1..Len(template) :
          IF template[i].t = "ph" /\ template[i].v \in ConfiguredVariables
          THEN SameToken(rendered[i],
                         FormatValue(nCall.priorOutputs[from[template[i].v]].data[template[i].v]))
          ELSE SameToken(rendered[i], template[i])

\* C15: with a true condition result and a recipient in the form output, the
\* email node fails, naming the variable, exactly when some configured
\* input variable is a key of no prior output; otherwise it completes, every
\* variable's value is the one some prior output holds under that key, and
\* placeholders without a gathered variable stay verbatim in subject and body.
C15_EmailFailsIffVariableMissing ==
    (EmailReturned /\ ConditionResultIs(nCall.priorOutputs, TRUE)
                   /\ HasRecipient(nCall.priorOutputs)) =>
        /\ (nOut.outputs.status = StatusFailed) <=> (MissingVariables # {})
        /\ MissingVariables # {} =>
                \E v \in MissingVariables :
                    SameToken(nOut.outputs.data["error"],
                              Fmt(<<"Missing required variable: ", v>>))
        /\ MissingVariables = {} =>
                /\ nOut.outputs.status = StatusCompleted
                /\ \E from \in [ConfiguredVariables -> DOMAIN nCall.priorOutputs] :
                      /\ \A v \in ConfiguredVariables : from[v] \in Holders(nCall.priorOutputs, v)
                      /\ RenderedFrom(nCall.node.config.Subject,
                                      nOut.outputs.data["emailContent"].v.subject, from)
                      /\ RenderedFrom(nCall.node.config.Body,
                                      nOut.outputs.data["emailContent"].v.body, from)

C15_Witness ==
    /\ EmailReturned
    /\ ConditionResultIs(nCall.priorOutputs, TRUE)
    /\ HasRecipient(nCall.priorOutputs)
    /\ nCall.node.config.InputVariables = <<"city", "temperature">>
    /\ nOut.outputs.status = StatusCompleted
    /\ nOut.outputs.data["emailContent"].v.body[2] = UnitPlaceholder

\* C16: with a false condition result the email node returns Completed and a
\* nil error and does not call the mailer, whether or not the form output,
\* the recipient or a configured input variable is there.
C16_FalseConditionSendsNothing ==
    (EmailReturned /\ ConditionResultIs(nCall.priorOutputs, FALSE)) =>
        /\ nOut.outputs.status = StatusCompleted
        /\ nOut.err = "nil"
        /\ "mail" \notin nOut.effects
        /\ "emailContent" \notin DOMAIN nOut.outputs.data

C16_Witness ==
    /\ EmailReturned
    /\ ConditionResultIs(nCall.priorOutputs, FALSE)
    /\ NodeIDForm \notin DOMAIN nCall.priorOutputs
    /\ MissingVariables # {}
    /\ nOut.outputs.status = StatusCompleted
    /\ nOut.effects = {}

----------------------------------------------------------------------------
(* Claims about concurrent Engine.Execute calls *)

\* The pointers call k holds.
Owned(k) == {xLocal[k].nodes[id] : id \in DOMAIN xLocal[k].nodes}

\* C17: Engine.Execute calls interleaved on one Engine do not interfere:
\* what each call returns (record with steps, statuses, output data,
\* descriptions and the route taken, or the error) is something the same call
\* returns when it runs alone, and a step of one call changes neither the
\* registry, nor the arguments, nor a node instance another call holds.
C17_ConcurrentCallsDoNotInterfere ==
    /\ [](\A k \in DOMAIN xLocal :
            xLocal[k].pc = "returned" => xLocal[k].ret \in RunAlone(BuiltinRegistry, xCall[k]))
    /\ [][/\ rFactories' = rFactories
          /\ xCall' = xCall
          /\ \A j \in DOMAIN xLocal :
                j # xTurn' =>
                    /\ xLocal'[j].pc = xLocal[j].pc
                    /\ Len(xLocal'[j].execution.steps) = Len(xLocal[j].execution.steps)
                    /\ \A a \in Owned(j) : xHeap'[a] = xHeap[a]]_vars

C17_Witness ==
    /\ DOMAIN xLocal = 1..MaxCalls
    /\ \A k \in 1..MaxCalls : xLocal[k].pc = "returned"
    /\ xCall[1].workflow = SampleWorkflow
    /\ xCall[2].workflow = SwappedWorkflow
    /\ Len(xLocal[1].ret.record.steps) = 6
    /\ Len(xLocal[2].ret.record.steps) = 6
    /\ xLocal[1].ret.record.steps[3].description # xLocal[2].ret.record.steps[3].description

----------------------------------------------------------------------------
(* Claims about inline workflow definitions in ExecuteWorkflow *)

Elements(seq) == {seq[i] : i \in 1..Len(seq)}

\* The same definition: name, nodes with type, description and metadata, and
\* edges, whatever the order of the rows.
SameDefinition(wf1, wf2) ==
    /\ wf1.present /\ wf2.present
    /\ wf1.name = wf2.name
    /\ Len(wf1.nodes) = Len(wf2.nodes) /\ Elements(wf1.nodes) = Elements(wf2.nodes)
    /\ Len(wf1.edges) = Len(wf2.edges) /\ Elements(wf1.edges) = Elements(wf2.edges)

\* An ExecuteWorkflow call with an inline definition has reached the engine.
InlineExecuted ==
    /\ sCall'.op = "ExecuteWorkflow"
    /\ sCall'.workflow.present
    /\ sEngineArg'.present

\* C18: when an execute request with an inline definition reaches the
\* engine, the workflow stored under the request's id is then the inline
\* definition (replaced if one existed, created if none did), and the graph
\* handed to the engine is the inline definition, node descriptions and
\* metadata included.
C18_InlineDefinitionStoredAndExecuted ==
    [][InlineExecuted =>
          /\ SameDefinition(sRepo'[sCall'.id], sCall'.workflow)
          /\ SameDefinition(sEngineArg', sCall'.workflow)]_vars

ExecuteCalled == sCall'.op = "ExecuteWorkflow"

\* C19 as stated: the workflow stored under the request's id is the same
\* after ExecuteWorkflow as before it, inline definition or not.
C19_StoredWorkflowUnchangedByExecute ==
    [][ExecuteCalled => sRepo'[sCall'.id] = sRepo[sCall'.id]]_vars

\* C19, amended: the inline definition is persisted.  A call without an
\* inline definition, and one whose inline definition workflowsEqual does
\* not tell apart from the stored workflow, change nothing; any other call
\* changes at most the workflow stored under the inline definition's id,
\* and only to the inline definition; and when such a call reaches the
\* engine, the inline definition is what is stored under its id.
C19_InlineDefinitionIsPersisted ==
    [][ExecuteCalled =>
          /\ (~sCall'.workflow.present \/ sCall'.path = "unchanged") => sRepo' = sRepo
          /\ \A id \in SvcIDs :
                \/ sRepo'[id] = sRepo[id]
                \/ id = sCall'.workflow.id /\ sRepo'[id] = sCall'.workflow
          /\ (sCall'.path \in {"updated", "created"} /\ sErr' = "nil") =>
                sRepo'[sCall'.workflow.id] = sCall'.workflow]_vars

C19_Witness ==
    /\ sCall.op = "ExecuteWorkflow"
    /\ sCall.path = "updated"
    /\ sErr = "nil"
    /\ sCall.id = sCall.workflow.id
    /\ sRepo[sCall.id] = sCall.workflow
    /\ sEngineArg.present

----------------------------------------------------------------------------
(* Claims about the stored version *)

\* C20: the stored version counts the updates: after a Create without a
\* version and n committed Updates, overlapping ones included, the version
\* is 1 + n; an Update that fails leaves version, nodes and edges as they
\* were.
C20_VersionCountsCommittedUpdates ==
    /\ [](dRow.present => dRow.version \in {1 + dCommits, 5 + dCommits})
    /\ [][(\E t \in DOMAIN dTx : dTx[t].pc # "failed" /\ dTx'[t].pc = "failed")
            => dRow' = dRow]_vars

----------------------------------------------------------------------------
(* Claims about routing out of a condition node *)

\* The result of the condition step i, as the condition node reports it.
ConditionMet(i) == Steps[i].output["conditionResult"].v.result

\* The condition step i completed, its output carries no explicit nextNodeId
\* and a further step follows it.
RoutedByTable(i) ==
    /\ i < Len(Steps)
    /\ Steps[i].nodeType = NodeTypeCondition
    /\ Steps[i].status = StatusCompleted
    /\ ePrior[Steps[i].nodeID].nextNodeID = ""

\* The target of the route of node id under routeKey, "" when there is none.
RouteTarget(id, routeKey) ==
    IF HasRoute(eEdges, id, routeKey) THEN eEdges[id][routeKey] ELSE ""

\* C21: when a completed condition node's output carries no explicit
\* nextNodeId, the engine looks up the route key "true" if the condition was
\* met and "false" if it was not: the node that runs next is the target of
\* the route under that key, or of the unconditional route when there is
\* none; a condition that was met is never followed by the target of its
\* "false" edge, one that was not met never by the target of its "true" edge.
C21_ConditionRouteFollowsResult ==
    \A i \in 1..Len(Steps) :
        RoutedByTable(i) =>
            LET id == Steps[i].nodeID
                key == IF ConditionMet(i) THEN "true" ELSE "false"
                other == IF ConditionMet(i) THEN "false" ELSE "true"
                expected == IF HasRoute(eEdges, id, key) THEN RouteTarget(id, key)
                                                         ELSE RouteTarget(id, "")
            IN  /\ Steps[i + 1].nodeID = expected
                /\ (HasRoute(eEdges, id, other) /\ RouteTarget(id, other) # expected)
                      => Steps[i + 1].nodeID # RouteTarget(id, other)

\* C22: Execute is never called on a condition node for which Validate()
\* returns an error: every condition node that has a step had both its true
\* route and its false route assigned when it ran, so a workflow whose
\* condition node lacks a "true" or a "false" edge is stopped before that
\* node runs.
C22_UnconfiguredConditionNeverExecuted ==
    \A i \in 1..Len(Steps) :
        Steps[i].nodeType = NodeTypeCondition =>
            ConditionValidate(eNodes[Steps[i].nodeID].config) = "nil"

----------------------------------------------------------------------------
(* Claims about the order of the structural checks *)

\* The structural invariants by their number in the list: 1 at least one
\* node, 2 start node, 3 end node, 4 node ids and types, 5 edges.  Each is
\* taken as the validator tests it.
InvariantViolated(n, nodes, edges) ==
    CASE n = 1 -> Len(nodes) = 0
      [] n = 2 -> \/ ~HasType(nodes, NodeTypeStart)
                  \/ \E i \in 2..Len(nodes) : nodes[i].type = NodeTypeStart
      [] n = 3 -> \/ ~HasType(nodes, NodeTypeEnd)
                  \/ nodes[Len(nodes)].type # NodeTypeEnd
      [] n = 4 -> \E i \in 1..Len(nodes) :
                      \/ nodes[i].id = ""
                      \/ nodes[i].type = ""
                      \/ \E j \in 1..(i - 1) : nodes[j].id = nodes[i].id
      [] n = 5 -> \E i \in 1..Len(edges) :
                      \/ edges[i].id = ""
                      \/ edges[i].source \notin NodeIDSet(nodes) \ {""}
                      \/ edges[i].target \notin NodeIDSet(nodes) \ {""}
                      \/ \E j \in 1..(i - 1) : edges[j].id = edges[i].id

\* The number of the invariant an error kind belongs to, 0 for no error.
InvariantOf(err) ==
    CASE err = "nil" -> 0
      [] err = "ErrInvalidWorkflowStructure" -> 1
      [] err \in {"ErrMissingStartNode", "ErrStartNodePosition"} -> 2
      [] err \in {"ErrMissingEndNode", "ErrEndNodePosition"} -> 3
      [] err \in {"ErrEmptyNodeID", "ErrDuplicateNodeID", "ErrInvalidNodeType"} -> 4
      [] OTHER -> 5

Least(S) == CHOOSE x \in S : \A y \in S : x <= y

\* The first violated invariant in the order of the list, 0 when none is.
FirstListedViolation(nodes, edges) ==
    LET violated == {n \in 1..5 : InvariantViolated(n, nodes, edges)}
    IN  IF Len(nodes) = 0 THEN 1
        ELSE IF violated = {} THEN 0 ELSE Least(violated)

\* C23 as stated: the error returned is that of the first violated invariant
\* in the order 1 at least one node, 2 start node, 3 end node, 4 node ids and
\* types, 5 edges; a graph that lacks a start node and has a duplicate node
\* id is reported as missing start.
C23_ErrorFollowsListedOrder ==
    vErr # "none" =>
        /\ InvariantOf(vErr) = FirstListedViolation(vNodes, vEdges)
        /\ (/\ Len(vNodes) > 0
            /\ ~HasType(vNodes, NodeTypeStart)
            /\ \E i, j \in 1..Len(vNodes) : i # j /\ vNodes[i].id = vNodes[j].id)
              => vErr = "ErrMissingStartNode"

\* The error of node i taken alone, given the nodes before it.
NodeViolation(nodes, i) ==
    IF nodes[i].id = "" THEN "ErrEmptyNodeID"
    ELSE IF \E j \in 1..(i - 1) : nodes[j].id = nodes[i].id THEN "ErrDuplicateNodeID"
    ELSE IF nodes[i].type = "" THEN "ErrInvalidNodeType"
    ELSE "nil"

\* The error of edge i taken alone, given the edges before it.
EdgeViolation(nodes, edges, i) ==
    IF edges[i].id = "" THEN "ErrEmptyEdgeID"
    ELSE IF \E j \in 1..(i - 1) : edges[j].id = edges[i].id THEN "ErrDuplicateEdgeID"
    ELSE IF edges[i].source = "" \/ edges[i].target = "" THEN "ErrInvalidEdgeConnection"
    ELSE IF edges[i].source \notin NodeIDSet(nodes) \/ edges[i].target \notin NodeIDSet(nodes)
    THEN "ErrEdgeToUnknownNode"
    ELSE "nil"

\* The first violation in the order the validator takes: no node; then the
\* nodes in list order, each for empty id, duplicate id, empty type; then
\* missing start, missing end, start not first, end not last; then the edges
\* in list order, each for empty id, duplicate id, empty end, unknown end.
FirstViolation(nodes, edges) ==
    LET badNodes == {i \in 1..Len(nodes) : NodeViolation(nodes, i) # "nil"}
        badEdges == {i \in 1..Len(edges) : EdgeViolation(nodes, edges, i) # "nil"}
    IN  IF Len(nodes) = 0 THEN "ErrInvalidWorkflowStructure"
        ELSE IF badNodes # {} THEN NodeViolation(nodes, Least(badNodes))
        ELSE IF ~HasType(nodes, NodeTypeStart) THEN "ErrMissingStartNode"
        ELSE IF ~HasType(nodes, NodeTypeEnd) THEN "ErrMissingEndNode"
        ELSE IF \E i \in 2..Len(nodes) : nodes[i].type = NodeTypeStart
        THEN "ErrStartNodePosition"
        ELSE IF nodes[Len(nodes)].type # NodeTypeEnd THEN "ErrEndNodePosition"
        ELSE IF badEdges # {} THEN EdgeViolation(nodes, edges, Least(badEdges))
        ELSE "nil"

\* C23 as amended: the error returned is the first violation in the order no
\* node; node ids and types, node by node; missing start; missing end; start
\* not first; end not last; edges, edge by edge.  A graph that lacks a start
\* node and has a duplicate node id (all ids and types being non-empty) is
\* reported as duplicate node id, and a
\* graph that lacks an end node and has its start node elsewhere than first
\* as missing end.  The error depends on the nodes and edges only.
C23_ErrorIsFirstViolationInCheckOrder ==
    vErr # "none" =>
        /\ vErr = FirstViolation(vNodes, vEdges)
        /\ (/\ ~HasType(vNodes, NodeTypeStart)
            /\ \A i \in 1..Len(vNodes) : vNodes[i].id # "" /\ vNodes[i].type # ""
            /\ \E i, j \in 1..Len(vNodes) : i # j /\ vNodes[i].id = vNodes[j].id)
              => vErr = "ErrDuplicateNodeID"
        /\ (/\ InvariantViolated(2, vNodes, vEdges)
            /\ ~InvariantViolated(4, vNodes, vEdges)
            /\ HasType(vNodes, NodeTypeStart)
            /\ ~HasType(vNodes, NodeTypeEnd))
              => vErr = "ErrMissingEndNode"

C23_Witness ==
    /\ vErr = "ErrDuplicateNodeID"
    /\ Len(vNodes) = 2
    /\ ~HasType(vNodes, NodeTypeStart)
    /\ vNodes[1].id = vNodes[2].id
    /\ vNodes[1].type # ""

----------------------------------------------------------------------------
(* Claims about edges that share source and route key *)

\* Edge i is overwritten: a later edge has its source and route key.
Overwritten(i) ==
    \E j \in (i + 1)..Len(WfEdges) :
        /\ WfEdges[j].source = WfEdges[i].source
        /\ WfEdges[j].sourceHandle = WfEdges[i].sourceHandle

\* The workflow has been initialised without error.
Initialised == Started /\ eRet.err \notin {"failed to create node", "no start node found in workflow"}

\* C24: two edges with the same (source, routeKey) do not make validation
\* fail: a graph that violates none of the structural checks is accepted,
\* duplicates or not.  After initialisation the routing table entry of every
\* (source, routeKey) is the target of the last edge with that pair, and for
\* a condition source and the keys "true" and "false" so is the node's true
\* or false route.  The node that runs after a source is always the target
\* of a last edge, never the target of an overwritten edge alone.  (The
\* validator's answer depends on the call alone and is compared in the state
\* the call starts from.)
C24_LaterEdgeOverwritesEarlier ==
    /\ (Started /\ Len(Steps) = 0) =>
          (FirstViolation(WfNodes, WfEdges) = "nil"
              => validateWorkflowStructure(WfNodes, WfEdges) = "nil")
    /\ Initialised =>
          /\ \A i \in 1..Len(WfEdges) :
                ~Overwritten(i) =>
                    LET edge == WfEdges[i]
                    IN  /\ HasRoute(eEdges, edge.source, edge.sourceHandle)
                        /\ eEdges[edge.source][edge.sourceHandle] = edge.target
                        /\ (/\ edge.source \in DOMAIN eNodes
                            /\ eNodes[edge.source].type = NodeTypeCondition
                            /\ edge.sourceHandle = "true")
                              => eNodes[edge.source].config.TrueRoute = edge.target
                        /\ (/\ edge.source \in DOMAIN eNodes
                            /\ eNodes[edge.source].type = NodeTypeCondition
                            /\ edge.sourceHandle = "false")
                              => eNodes[edge.source].config.FalseRoute = edge.target
          /\ \A k \in 1..(Len(Steps) - 1) :
                \E i \in 1..Len(WfEdges) :
                    /\ ~Overwritten(i)
                    /\ WfEdges[i].source = Steps[k].nodeID
                    /\ WfEdges[i].target = Steps[k + 1].nodeID

C24_Witness ==
    /\ Returned
    /\ validateWorkflowStructure(WfNodes, WfEdges) = "nil"
    /\ Len(WfEdges) = 5
    /\ WfEdges[4].source = "condition" /\ WfEdges[4].sourceHandle = "true"
    /\ WfEdges[5].source = "condition" /\ WfEdges[5].sourceHandle = "true"
    /\ WfEdges[4].target = "email"
    /\ WfEdges[5].target = "end"
    /\ eEdges["condition"]["true"] = "end"
    /\ eNodes["condition"].config.TrueRoute = "end"
    /\ StepNodeIDs = <<"start", "form", "weather-api", "condition", "end">>
    /\ ConditionMet(4)

----------------------------------------------------------------------------
(* Claims about the steps of a record *)

\* The definition the instance with this id was created from.
DefinitionOf(id) == LastWithID(WfNodes, id)

\* The description of step i is the definition's, with the placeholder
\* {{city}} replaced by the form's city once an integration node has read it.
DescriptionAfterRun(i) ==
    LET text == DefinitionOf(Steps[i].nodeID).description
    IN  IF Steps[i].nodeType = NodeTypeIntegration /\ FormRanBefore(i)
        THEN /\ Len(Steps[i].description) = Len(text)
             /\ \A k \in 1..Len(text) :
                   Steps[i].description[k] = IF text[k] = "{{city}}" THEN CityRead(i) ELSE text[k]
        ELSE Steps[i].description = text

\* C25: a returned record's steps are not empty, the i-th has StepNumber i,
\* the first is the start node, and every step has the label and the
\* description of its node instance after the node ran: an integration
\* node's {{city}} is replaced by the form's city.  Steps has one entry per
\* node execution, in execution order: every iteration that executes a node
\* appends one step for that node, with that node's output and texts, and
\* nothing else changes the steps.
C25_StepsRecordExecutions ==
    /\ []((Returned /\ eRet.record.present) =>
            /\ eRet.record.steps = Steps
            /\ Len(Steps) > 0
            /\ Steps[1].nodeType = NodeTypeStart
            /\ \A i \in 1..Len(Steps) :
                  /\ Steps[i].stepNumber = i
                  /\ Steps[i].label = DefinitionOf(Steps[i].nodeID).label
                  /\ DescriptionAfterRun(i))
    /\ [][ePc = "running" =>
            IF eCurrent \in DOMAIN eNodes
            THEN /\ Len(eExecution'.steps) = Len(Steps) + 1
                 /\ SubSeq(eExecution'.steps, 1, Len(Steps)) = Steps
                 /\ LET step == eExecution'.steps[Len(Steps) + 1]
                    IN  /\ step.nodeID = eCurrent
                        /\ step.nodeType = eNodes[eCurrent].type
                        /\ step.stepNumber = Len(Steps) + 1
                        /\ step.output = ePrior'[eCurrent].data
                        /\ step.label = eNodes'[eCurrent].label
                        /\ step.description = eNodes'[eCurrent].description
            ELSE eExecution'.steps = Steps]_vars

C25_Witness ==
    /\ Returned
    /\ eRet.record.present
    /\ eRet.record.status = StatusCompleted
    /\ Len(eRet.record.steps) = 6
    /\ eRet.record.steps[3].nodeType = NodeTypeIntegration
    /\ eRet.record.steps[3].stepNumber = 3
    /\ eRet.record.steps[3].label = <<"Label ", "weather-api">>
    /\ eRet.record.steps[3].description = <<"Fetch current temperature for ", "Sydney">>
    /\ WfNodes[3].description = <<"Fetch current temperature for ", "{{city}}">>

----------------------------------------------------------------------------
(* Claims about workflowsEqual and its goroutines *)

EqualReturned == qPc = "returned"

GoroutinesStarted == qNodes.pc # "none" /\ qEdges.pc # "none"

\* C26: workflowsEqual terminates under every interleaving of its caller
\* and its two goroutines.  No goroutine sends more than one value and no
\* channel holds more than its buffer; until the call has returned, the
\* caller or a goroutine can take a step; when it returns after starting the
\* goroutines each of them has sent exactly one value, has ended, and both
\* channels are empty; the value returned is that of the comparison made
\* sequentially (name equal, counts equal, nodes equal and edges equal); and
\* the call returns eventually.
C26_WorkflowsEqualTerminates ==
    /\ [](/\ qNodes.sends <= 1
          /\ qEdges.sends <= 1
          /\ Len(qNodesChan) <= ChanCapacity
          /\ Len(qEdgesChan) <= ChanCapacity)
    /\ [](~EqualReturned => ENABLED NextEqual)
    /\ [](EqualReturned =>
            /\ qRet = Value(workflowsEqual(qCall.wf1, qCall.wf2))
            /\ GoroutinesStarted <=> QuickCheck(qCall.wf1, qCall.wf2)
            /\ GoroutinesStarted =>
                  /\ qNodes.pc = "done" /\ qNodes.sends = 1
                  /\ qEdges.pc = "done" /\ qEdges.sends = 1
                  /\ qNodesChan = <<>> /\ qEdgesChan = <<>>)
    /\ <>EqualReturned

\* The edge goroutine has sent false and ended before the node goroutine
\* has compared its last node; the call has returned false.
C26_Witness ==
    /\ EqualReturned
    /\ GoroutinesStarted
    /\ qRet = Value(FALSE)
    /\ qNodesEqual
    /\ qNodes.i = 4
    /\ qEdges.i = 2
    /\ qCall.wf1 # qCall.wf2

----------------------------------------------------------------------------
(* Claims about the determinism of the email node *)

SameText(text1, text2) ==
    /\ Len(text1) = Len(text2)
    /\ \A i \in 1..Len(text1) : SameToken(text1[i], text2[i])

Sent(result) == result.err = "nil" /\ "emailContent" \in DOMAIN result.outputs.data

\* C27: email.Node.Execute is deterministic: every execution with the
\* configuration and the prior outputs of the one that returned ends with
\* the same error and status and, when the mail is sent, renders the same
\* subject and body, also when a variable is a key of several prior outputs
\* with different values.
C27_EmailExecuteDeterministic ==
    EmailReturned =>
        \A other \in EmailExecute(nCall.node, nCall.priorOutputs) :
            /\ other.err = nOut.err
            /\ other.outputs.status = nOut.outputs.status
            /\ Sent(other) <=> Sent(nOut)
            /\ Sent(other) =>
                  /\ SameText(other.outputs.data["emailContent"].v.subject,
                              nOut.outputs.data["emailContent"].v.subject)
                  /\ SameText(other.outputs.data["emailContent"].v.body,
                              nOut.outputs.data["emailContent"].v.body)

----------------------------------------------------------------------------
(* Claims about the node ids of a traversal *)

\* Step i was followed by a move to the condition node's explicit nextNodeId.
MovedByNextNodeID(i) ==
    /\ i < Len(Steps)
    /\ Steps[i].nodeType = NodeTypeCondition
    /\ Steps[i].status = StatusCompleted
    /\ ~RoutedByTable(i)

\* C28: on a graph accepted by validateWorkflowStructure, executed with the
\* built-in node variants, the call never returns "node not found in
\* workflow": the id the engine is at, whether it came from the routing
\* table or from a condition node's explicit nextNodeId, is always the id of
\* an instantiated node, and so is every target in the routing table.
C28_ValidatedTraversalFindsEveryNode ==
    Started =>
        \/ /\ eRet.err # "node not found in workflow"
           /\ ePc = "running" => eCurrent \in DOMAIN eNodes
           /\ \A id \in DOMAIN eEdges : \A routeKey \in DOMAIN eEdges[id] :
                  eEdges[id][routeKey] \in DOMAIN eNodes
           /\ \A i \in 1..Len(Steps) : Steps[i].nodeID \in NodeIDSet(WfNodes)
        \/ validateWorkflowStructure(WfNodes, WfEdges) # "nil"

C28_Witness ==
    /\ Returned
    /\ validateWorkflowStructure(WfNodes, WfEdges) = "nil"
    /\ eRet.record.status = StatusCompleted
    /\ \E i \in 1..Len(Steps) : MovedByNextNodeID(i)
    /\ \E j \in 1..(Len(Steps) - 1) :
           /\ Steps[j].nodeType # NodeTypeCondition
           /\ HasRoute(eEdges, Steps[j].nodeID, "")
           /\ Steps[j + 1].nodeID = eEdges[Steps[j].nodeID][""]

----------------------------------------------------------------------------
(* Claims about the status of the returned record *)

RecordReturned == Returned /\ eRet.record.present

LastStep == Steps[Len(Steps)]

\* C29: a record returned by Engine.Execute has status Completed or Failed,
\* never Running, and at least one step.  Its status is Completed exactly
\* when its last step is an end-type node and every step is Completed; no
\* step before the last is an end-type node or a Failed step; and its status
\* is Failed exactly when its last step is Failed.
C29_RecordStatusFollowsLastStep ==
    RecordReturned =>
        LET record == eRet.record
            last == record.steps[Len(record.steps)]
        IN  /\ eRet.err = "nil"
            /\ record.status \in {StatusCompleted, StatusFailed}
            /\ record.status # StatusRunning
            /\ Len(record.steps) > 0
            /\ record.status = StatusCompleted <=>
                  /\ last.nodeType = NodeTypeEnd
                  /\ \A i \in 1..Len(record.steps) : record.steps[i].status = StatusCompleted
            /\ \A i \in 1..(Len(record.steps) - 1) :
                  /\ record.steps[i].nodeType # NodeTypeEnd
                  /\ record.steps[i].status # StatusFailed
            /\ record.status = StatusFailed <=> last.status = StatusFailed

\* A record that failed after several completed steps.
C29_Witness ==
    /\ RecordReturned
    /\ eRet.record.status = StatusFailed
    /\ Len(eRet.record.steps) >= 3
    /\ LastStep.status = StatusFailed
    /\ LastStep.nodeType = NodeTypeIntegration

----------------------------------------------------------------------------
(* Claims about cycles among the routes *)

\* The targets of the routes out of node id in the routing table.  A
\* condition node's TrueRoute and FalseRoute are its "true" and "false"
\* entries.
RouteTargets(id) ==
    IF id \in DOMAIN eEdges THEN {eEdges[id][routeKey] : routeKey \in DOMAIN eEdges[id]} ELSE {}

\* The node ids reached from the ids in S over one to n routes.
RECURSIVE RoutesReach(_, _)
RoutesReach(S, n) ==
    LET step == UNION {RouteTargets(id) : id \in S}
    IN  IF n = 0 THEN {} ELSE step \cup RoutesReach(step, n - 1)

FirstNodeID == IF Len(Steps) > 0 THEN Steps[1].nodeID ELSE eCurrent

\* No node reachable from the start node over routes reaches itself.
RoutesFromStartAcyclic ==
    \A id \in {FirstNodeID} \cup RoutesReach({FirstNodeID}, Len(WfNodes)) :
        id \notin RoutesReach({id}, Len(WfNodes))

\* Some node was executed twice.
Revisited == \E i, j \in 1..Len(Steps) : i < j /\ Steps[i].nodeID = Steps[j].nodeID

====
